---- MODULE Spec2Model ----
(***************************************************************************)
(* Verification-and-aggregation circuits of the brevis-sdk examples.       *)
(*                                                                         *)
(* One invocation of one circuit's Define is modelled as a run of the      *)
(* circuit's statement list: every sdk call of Define is one step.  The    *)
(* statement lists (CompoundDefine, TokenHolderDefine, ...) and the        *)
(* per-record predicates (CompoundAssertEachFn, ...) are translated from   *)
(* the circuit sources.  The sdk package itself (DataStream, Uint248 API,  *)
(* output encoder) is not part of the examples; its operations are         *)
(* modelled from the design document (sections 4, 5 and 7).                *)
(*                                                                         *)
(* Addresses, event ids and slot keys are abstracted to small distinct     *)
(* numbers; the numeric widths 64/160/248 are scaled down to Bits64,       *)
(* Bits160 and Bits248 bits and the receipt capacities 30/50 to            *)
(* ReceiptCapacity, so that the finite-state check is exhaustive.          *)
(***************************************************************************)
EXTENDS Integers, Sequences, FiniteSets, TLC

-----------------------------------------------------------------------------
(* Bounds *)

\* scaled width of a 64-bit output
Bits64 == 3
\* scaled width of an address (160 bits)
Bits160 == 4
\* scaled width of sdk.Uint248
Bits248 == 5
\* scaled number of receipts declared by the receipt circuits (30 or 50)
ReceiptCapacity == 2

MaxU248 == 2^Bits248 - 1

\* amounts carried by the evidence records: zero, a small one, the largest
Amounts == {0, 1, MaxU248}
\* caller-supplied thresholds
Thresholds == {0, 1, 2, MaxU248}

\* signed amounts of a swap: tokens paid out, none, tokens paid in
SignedAmounts == {-1, 0, 1}
\* the address under proof
UserAddrs == {1}
\* block numbers of the evidence
BlockNums == {7}

OtherAddr(a) == (a % 3) + 1
OtherEvent(e) == e + 100

-----------------------------------------------------------------------------
(* Program constants (abstracted addresses and event identifiers) *)

Compound_EventIdMint == 11
Compound_cUSDCAddress == 1

Sushiswap_EventIdSwap == 12
Sushiswap_USDCWETHPair == 1

PolygonBridge_EventIdLockedEther == 13
PolygonBridge_RootChainManager == 1

Curve_EventIdTokenExchange == 14
Curve_ThreePoolAddress == 1

Bidirectional_EventIdSwap == 12
Bidirectional_USDCWETHPair == 1

SushiBidirectional_EventIdSwap == 12
SushiBidirectional_USDCWETHPair == 2

UniswapV3_EventIdSwap == 17
UniswapV3_USDCWETHPool_005 == 1

Balancer_EventIdSwap == 18
Balancer_VaultAddress == 1

UniswapV2LP_EventIdMint == 19
UniswapV2LP_USDCWETHPair == 1

LayerZero_EventIdPayloadStored == 16
LayerZero_EndpointEthereum == 1

\* ERC721 Transfer(address,address,uint256), named by the circuit's README
NFT_EventIdTransfer == 15

TokenHolder_USDCTokenAddr == 1
TokenHolder_minimumBalance == 2

Multichain_USDCEthereum == 1
Multichain_USDC_BSC == 2

Slot_Price1CumulativeLast == 9

\* first slot of the observations array of a Uniswap V3 pool
Slot_Observations == 8

-----------------------------------------------------------------------------
(* sdk data types *)

\* sdk.LogField
LogField(contract, logPos, eventID, isTopic, index, value) ==
    [Contract |-> contract, LogPos |-> logPos, EventID |-> eventID,
     IsTopic |-> isTopic, Index |-> index, Value |-> value]

\* sdk.Receipt
Receipt(blockNum, fields) == [BlockNum |-> blockNum, Fields |-> fields]

\* sdk.StorageSlot
StorageSlot(blockNum, contract, slot, value) ==
    [BlockNum |-> blockNum, Contract |-> contract, Slot |-> slot, Value |-> value]

\* sdk.DataInput
DataInput(receipts, slots) == [Receipts |-> receipts, StorageSlots |-> slots]

-----------------------------------------------------------------------------
(* sdk operations on values *)

\* api.ToUint248: the low 248 bits of the value
ToUint248(v) == v % (2^Bits248)

FitsIn(bits, v) == v >= 0 /\ v < 2^bits

\* a result that wrapped instead of failing
WrappingAdd(a, b) == [ok |-> TRUE, val |-> (a + b) % (2^Bits248)]

\* u248.Add: width-checked addition
CheckedAdd(a, b) ==
    IF a + b <= MaxU248 THEN [ok |-> TRUE, val |-> a + b]
                        ELSE [ok |-> FALSE, val |-> 0]

\* u248.Sub: width-checked subtraction
CheckedSub(a, b) ==
    IF a >= b THEN [ok |-> TRUE, val |-> a - b]
              ELSE [ok |-> FALSE, val |-> 0]

RECURSIVE SumFrom(_, _, _)
SumFrom(s, i, acc) ==
    IF i > Len(s) \/ ~acc.ok THEN acc
    ELSE SumFrom(s, i + 1, CheckedAdd(acc.val, s[i]))

\* an accumulation that starts one element late
SumSkippingFirst(s) == SumFrom(s, 2, [ok |-> TRUE, val |-> 0])

\* sdk.Sum: accumulates the stream left to right with width-checked addition
Sum(s) == SumFrom(s, 1, [ok |-> TRUE, val |-> 0])

\* sdk.Count
Count(s) == Len(s)

\* api.SlotOfStructFieldInMapping: keccak256(abi.encode(key, slot)) + offset,
\* kept symbolic (injective in its three arguments)
SlotOfStructFieldInMapping(slot, offset, key) == <<slot, offset, key>>

\* the key of a plain (non-mapping) storage variable
PlainSlot(slot) == <<slot>>

-----------------------------------------------------------------------------
(* Output encoder.  A byte is scaled to one bit, so that the slots of 8,    *)
(* 20 and 31 bytes of the 64-, 160- and 248-bit values become slots of     *)
(* Bits64, Bits160 and Bits248 scaled bytes.                               *)

\* the size in bytes of the slot of a value of the declared width
SlotBytes(bits) == bits

\* the value written with its least significant byte first
EncodeValueLittleEndian(bits, v) ==
    [k \in 1..SlotBytes(bits) |-> (v \div (2^(k - 1))) % 2]

\* one value in its slot, most significant byte first
EncodeValue(bits, v) ==
    [k \in 1..SlotBytes(bits) |-> (v \div (2^(SlotBytes(bits) - k))) % 2]

\* the number a sequence of bytes denotes, most significant byte first
RECURSIVE BigEndian(_)
BigEndian(b) ==
    IF b = << >> THEN 0
    ELSE 2 * BigEndian(SubSeq(b, 1, Len(b) - 1)) + b[Len(b)]

\* the offset of slot i of a layout of declared widths
RECURSIVE Offset(_, _)
Offset(widths, i) ==
    IF i = 1 THEN 0 ELSE Offset(widths, i - 1) + SlotBytes(widths[i - 1])

\* reading the slots of a buffer at the fixed offsets of the layout
Decode(buf, widths) ==
    [i \in 1..Len(widths) |->
        [bits |-> widths[i],
         val |-> BigEndian(SubSeq(buf, Offset(widths, i) + 1,
                                  Offset(widths, i) + SlotBytes(widths[i])))]]

-----------------------------------------------------------------------------
(* The consumers of the READMEs (handleProofResult).  They read the output *)
(* in words of 32 bytes, one byte more than the slot of a 248-bit value.   *)

WordBytes == SlotBytes(Bits248) + 1

\* a slice beyond the end of circuitOutput reverts the call
Reverted == -1

\* T(uint256(bytes32(circuitOutput[32*i : 32*(i+1)]))) for a type T of the
\* given width: the low bits of the word
ReadWord(buf, i, bits) ==
    IF WordBytes * (i + 1) > Len(buf) THEN Reverted
    ELSE BigEndian(SubSeq(buf, WordBytes * i + 1, WordBytes * (i + 1))) % (2^bits)

\* TokenHolderVerifier.handleProofResult: holderAddr, balance, blockNum
TokenHolderVerifier(circuitOutput) ==
    << ReadWord(circuitOutput, 0, Bits160),
       ReadWord(circuitOutput, 1, Bits248),
       ReadWord(circuitOutput, 2, Bits64) >>

\* NFTOwnershipVerifier.handleProofResult: owner, nftContract, tokenId, blockNum
NFTOwnershipVerifier(circuitOutput) ==
    << ReadWord(circuitOutput, 0, Bits160),
       ReadWord(circuitOutput, 1, Bits160),
       ReadWord(circuitOutput, 2, WordBytes),
       ReadWord(circuitOutput, 3, Bits64) >>

-----------------------------------------------------------------------------
(* Statements of a Define body *)

\* operands: a constant, a circuit parameter, a package-level variable, a
\* local variable, a field of a storage slot held in a local, a field of a
\* log field of a receipt
Nil == [k |-> "nil", s |-> "", n |-> 0, f |-> ""]
C(n) == [k |-> "const", s |-> "", n |-> n, f |-> ""]
P(name) == [k |-> "param", s |-> name, n |-> 0, f |-> ""]
G(name) == [k |-> "global", s |-> name, n |-> 0, f |-> ""]
V(name) == [k |-> "var", s |-> name, n |-> 0, f |-> ""]
F(name, field) == [k |-> "field", s |-> name, n |-> 0, f |-> field]
LF(name, i, field) == [k |-> "logfield", s |-> name, n |-> i, f |-> field]

Stmt(op) ==
    [op |-> op, dst |-> "", src |-> "", a |-> Nil, b |-> Nil, n |-> 0,
     f |-> "", err |-> "None"]

CallNewDataStream(dst, src) == [Stmt("NewDataStream") EXCEPT !.dst = dst, !.src = src]
CallGetUnderlying(dst, src, i) == [Stmt("GetUnderlying") EXCEPT !.dst = dst, !.src = src, !.n = i]
CallAssertEach(src, fn) == [Stmt("AssertEach") EXCEPT !.src = src, !.f = fn, !.err = "PatternMismatch"]
CallAssertIsEqual(a, b, err) == [Stmt("AssertIsEqual") EXCEPT !.a = a, !.b = b, !.err = err]
CallAssertIsLessOrEqual(a, b) == [Stmt("AssertIsLessOrEqual") EXCEPT !.a = a, !.b = b, !.err = "ThresholdUnmet"]
CallSlotOfStructFieldInMapping(dst, slot, offset, key) ==
    [Stmt("SlotOfStructFieldInMapping") EXCEPT !.dst = dst, !.n = slot, !.a = C(offset), !.b = key]
CallToUint248(dst, a) == [Stmt("ToUint248") EXCEPT !.dst = dst, !.a = a]
CallMap(dst, src, fn, i) == [Stmt("Map") EXCEPT !.dst = dst, !.src = src, !.f = fn, !.n = i]
CallSum(dst, src) == [Stmt("Sum") EXCEPT !.dst = dst, !.src = src]
CallCount(dst, src) == [Stmt("Count") EXCEPT !.dst = dst, !.src = src]
CallAdd(dst, a, b) == [Stmt("Add") EXCEPT !.dst = dst, !.a = a, !.b = b]
CallSub(dst, a, b) == [Stmt("Sub") EXCEPT !.dst = dst, !.a = a, !.b = b]
CallOutputAddress(a) == [Stmt("OutputAddress") EXCEPT !.a = a, !.n = Bits160]
CallOutputUint(bits, a) == [Stmt("OutputUint") EXCEPT !.a = a, !.n = bits]
CallReturn == Stmt("Return")

\* r.Fields[i] with the source's 0-based index
Field(r, i) == r.Fields[i + 1]

-----------------------------------------------------------------------------
(* The state: one invocation (its circuit, parameters and batch, the       *)
(* position in Define, the locals, the output), the package-level          *)
(* variables of the circuit packages, which every invocation reads, and a  *)
(* second invocation evaluated at the same time (peer); and the           *)
(* command-line program that is running (prog).                            *)

VARIABLES circuit, params, input, pc, phase, env, output, buffer, err, pkg, peer, prog

\* the package-level variables as the packages initialise them
PackageVars ==
    [Compound_EventIdMint |-> Compound_EventIdMint,
     Compound_cUSDCAddress |-> Compound_cUSDCAddress,
     Sushiswap_EventIdSwap |-> Sushiswap_EventIdSwap,
     Sushiswap_USDCWETHPair |-> Sushiswap_USDCWETHPair,
     PolygonBridge_EventIdLockedEther |-> PolygonBridge_EventIdLockedEther,
     PolygonBridge_RootChainManager |-> PolygonBridge_RootChainManager,
     Curve_EventIdTokenExchange |-> Curve_EventIdTokenExchange,
     Curve_ThreePoolAddress |-> Curve_ThreePoolAddress,
     Bidirectional_EventIdSwap |-> Bidirectional_EventIdSwap,
     Bidirectional_USDCWETHPair |-> Bidirectional_USDCWETHPair,
     SushiBidirectional_EventIdSwap |-> SushiBidirectional_EventIdSwap,
     SushiBidirectional_USDCWETHPair |-> SushiBidirectional_USDCWETHPair,
     UniswapV3_EventIdSwap |-> UniswapV3_EventIdSwap,
     UniswapV3_USDCWETHPool_005 |-> UniswapV3_USDCWETHPool_005,
     Balancer_EventIdSwap |-> Balancer_EventIdSwap,
     Balancer_VaultAddress |-> Balancer_VaultAddress,
     UniswapV2LP_EventIdMint |-> UniswapV2LP_EventIdMint,
     UniswapV2LP_USDCWETHPair |-> UniswapV2LP_USDCWETHPair,
     LayerZero_EventIdPayloadStored |-> LayerZero_EventIdPayloadStored,
     LayerZero_EndpointEthereum |-> LayerZero_EndpointEthereum,
     TokenHolder_USDCTokenAddr |-> TokenHolder_USDCTokenAddr,
     TokenHolder_minimumBalance |-> TokenHolder_minimumBalance,
     Multichain_USDCEthereum |-> Multichain_USDCEthereum,
     Multichain_USDC_BSC |-> Multichain_USDC_BSC]

-----------------------------------------------------------------------------
(* compound: Mint(minter, mintAmount, mintTokens) of cUSDC *)

CompoundAllocate == <<ReceiptCapacity, 0, 0>>

CompoundAssertEachFn(r, c) ==
    LET contractMatches ==
            /\ Field(r, 0).Contract = pkg.Compound_cUSDCAddress
            /\ Field(r, 1).Contract = pkg.Compound_cUSDCAddress
        eventIdMatches ==
            /\ Field(r, 0).EventID = pkg.Compound_EventIdMint
            /\ Field(r, 1).EventID = pkg.Compound_EventIdMint
        fieldIndicesCorrect ==
            /\ Field(r, 0).IsTopic = 0
            /\ Field(r, 0).Index = 1
            /\ Field(r, 1).IsTopic = 0
            /\ Field(r, 1).Index = 0
        userMatches == ToUint248(Field(r, 1).Value) = c.UserAddr
    IN  contractMatches /\ eventIdMatches /\ fieldIndicesCorrect /\ userMatches

\* the results are emitted before the threshold is asserted
CompoundDefineOutputFirst ==
    << CallNewDataStream("receipts", "Receipts"),
       CallAssertEach("receipts", "compound"),
       CallMap("supplies", "receipts", "Fields", 0),
       CallSum("totalSupply", "supplies"),
       CallCount("mintCount", "receipts"),
       CallOutputAddress(P("UserAddr")),
       CallOutputUint(Bits248, V("totalSupply")),
       CallOutputUint(Bits248, P("MinSupply")),
       CallOutputUint(Bits64, V("mintCount")),
       CallAssertIsLessOrEqual(P("MinSupply"), V("totalSupply")),
       CallReturn >>

\* the operands of the threshold assertion are swapped
CompoundDefineSwappedThreshold ==
    << CallNewDataStream("receipts", "Receipts"),
       CallAssertEach("receipts", "compound"),
       CallMap("supplies", "receipts", "Fields", 0),
       CallSum("totalSupply", "supplies"),
       CallAssertIsLessOrEqual(V("totalSupply"), P("MinSupply")),
       CallCount("mintCount", "receipts"),
       CallOutputAddress(P("UserAddr")),
       CallOutputUint(Bits248, V("totalSupply")),
       CallOutputUint(Bits248, P("MinSupply")),
       CallOutputUint(Bits64, V("mintCount")),
       CallReturn >>

\* the threshold is emitted in the place of the count
CompoundDefineWrongCountOutput ==
    << CallNewDataStream("receipts", "Receipts"),
       CallAssertEach("receipts", "compound"),
       CallMap("supplies", "receipts", "Fields", 0),
       CallSum("totalSupply", "supplies"),
       CallAssertIsLessOrEqual(P("MinSupply"), V("totalSupply")),
       CallCount("mintCount", "receipts"),
       CallOutputAddress(P("UserAddr")),
       CallOutputUint(Bits248, V("totalSupply")),
       CallOutputUint(Bits248, P("MinSupply")),
       CallOutputUint(Bits64, P("MinSupply")),
       CallReturn >>

CompoundDefine ==
    << CallNewDataStream("receipts", "Receipts"),
       CallAssertEach("receipts", "compound"),
       CallMap("supplies", "receipts", "Fields", 0),
       CallSum("totalSupply", "supplies"),
       CallAssertIsLessOrEqual(P("MinSupply"), V("totalSupply")),
       CallCount("mintCount", "receipts"),
       CallOutputAddress(P("UserAddr")),
       CallOutputUint(Bits248, V("totalSupply")),
       CallOutputUint(Bits248, P("MinSupply")),
       CallOutputUint(Bits64, V("mintCount")),
       CallReturn >>

-----------------------------------------------------------------------------
(* sushiswap: Swap(sender, amount0In, amount1In, amount0Out, amount1Out, to) *)

SushiswapAllocate == <<ReceiptCapacity, 0, 0>>

SushiswapAssertEachFn(r, c) ==
    LET contractMatches ==
            /\ Field(r, 0).Contract = pkg.Sushiswap_USDCWETHPair
            /\ Field(r, 1).Contract = pkg.Sushiswap_USDCWETHPair
        eventIdMatches ==
            /\ Field(r, 0).EventID = pkg.Sushiswap_EventIdSwap
            /\ Field(r, 1).EventID = pkg.Sushiswap_EventIdSwap
        fieldIndicesCorrect ==
            /\ Field(r, 0).IsTopic = 0
            /\ Field(r, 0).Index = 3
            /\ Field(r, 1).IsTopic = 1
            /\ Field(r, 1).Index = 2
        userMatches == ToUint248(Field(r, 1).Value) = c.UserAddr
    IN  contractMatches /\ eventIdMatches /\ fieldIndicesCorrect /\ userMatches

\* the volume is read from the address field
SushiswapDefineWrongField ==
    << CallNewDataStream("receipts", "Receipts"),
       CallAssertEach("receipts", "sushiswap"),
       CallMap("volumes", "receipts", "Fields", 1),
       CallSum("totalVolume", "volumes"),
       CallAssertIsLessOrEqual(P("MinVolume"), V("totalVolume")),
       CallCount("swapCount", "receipts"),
       CallOutputAddress(P("UserAddr")),
       CallOutputUint(Bits248, V("totalVolume")),
       CallOutputUint(Bits248, P("MinVolume")),
       CallOutputUint(Bits64, V("swapCount")),
       CallReturn >>

SushiswapDefine ==
    << CallNewDataStream("receipts", "Receipts"),
       CallAssertEach("receipts", "sushiswap"),
       CallMap("volumes", "receipts", "Fields", 0),
       CallSum("totalVolume", "volumes"),
       CallAssertIsLessOrEqual(P("MinVolume"), V("totalVolume")),
       CallCount("swapCount", "receipts"),
       CallOutputAddress(P("UserAddr")),
       CallOutputUint(Bits248, V("totalVolume")),
       CallOutputUint(Bits248, P("MinVolume")),
       CallOutputUint(Bits64, V("swapCount")),
       CallReturn >>

-----------------------------------------------------------------------------
(* polygon-bridge: LockedEther(depositor, depositReceiver, rootToken, amount) *)

PolygonBridgeAllocate == <<ReceiptCapacity, 0, 0>>

PolygonBridgeAssertEachFn(r, c) ==
    LET contractMatches ==
            /\ Field(r, 0).Contract = pkg.PolygonBridge_RootChainManager
            /\ Field(r, 1).Contract = pkg.PolygonBridge_RootChainManager
        eventIdMatches ==
            /\ Field(r, 0).EventID = pkg.PolygonBridge_EventIdLockedEther
            /\ Field(r, 1).EventID = pkg.PolygonBridge_EventIdLockedEther
        fieldIndicesCorrect ==
            /\ Field(r, 0).IsTopic = 0
            /\ Field(r, 0).Index = 0
            /\ Field(r, 1).IsTopic = 1
            /\ Field(r, 1).Index = 1
        userMatches == ToUint248(Field(r, 1).Value) = c.UserAddr
    IN  contractMatches /\ eventIdMatches /\ fieldIndicesCorrect /\ userMatches

PolygonBridgeDefine ==
    << CallNewDataStream("receipts", "Receipts"),
       CallAssertEach("receipts", "polygonBridge"),
       CallMap("amounts", "receipts", "Fields", 0),
       CallSum("totalBridged", "amounts"),
       CallAssertIsLessOrEqual(P("MinBridgeAmount"), V("totalBridged")),
       CallCount("bridgeCount", "receipts"),
       CallOutputAddress(P("UserAddr")),
       CallOutputUint(Bits248, V("totalBridged")),
       CallOutputUint(Bits248, P("MinBridgeAmount")),
       CallOutputUint(Bits64, V("bridgeCount")),
       CallReturn >>

-----------------------------------------------------------------------------
(* curve-stableswap: TokenExchange(buyer, sold_id, tokens_sold, bought_id, tokens_bought) *)

CurveAllocate == <<ReceiptCapacity, 0, 0>>

CurveAssertEachFn(r, c) ==
    LET contractMatches ==
            /\ Field(r, 0).Contract = pkg.Curve_ThreePoolAddress
            /\ Field(r, 1).Contract = pkg.Curve_ThreePoolAddress
        eventIdMatches ==
            /\ Field(r, 0).EventID = pkg.Curve_EventIdTokenExchange
            /\ Field(r, 1).EventID = pkg.Curve_EventIdTokenExchange
        fieldIndicesCorrect ==
            /\ Field(r, 0).IsTopic = 0
            /\ Field(r, 0).Index = 3
            /\ Field(r, 1).IsTopic = 1
            /\ Field(r, 1).Index = 1
        userMatches == ToUint248(Field(r, 1).Value) = c.UserAddr
    IN  contractMatches /\ eventIdMatches /\ fieldIndicesCorrect /\ userMatches

CurveDefine ==
    << CallNewDataStream("receipts", "Receipts"),
       CallAssertEach("receipts", "curve"),
       CallMap("volumes", "receipts", "Fields", 0),
       CallSum("totalVolume", "volumes"),
       CallAssertIsLessOrEqual(P("MinVolume"), V("totalVolume")),
       CallCount("exchangeCount", "receipts"),
       CallOutputAddress(P("UserAddr")),
       CallOutputUint(Bits248, V("totalVolume")),
       CallOutputUint(Bits248, P("MinVolume")),
       CallOutputUint(Bits64, V("exchangeCount")),
       CallReturn >>

-----------------------------------------------------------------------------
(* uniswap-v2-bidirectional: amount1In and amount1Out of Swap *)

BidirectionalAllocate == <<ReceiptCapacity, 0, 0>>

\* only the sender is compared with the user
BidirectionalAssertEachFnSenderOnly(r, c) ==
    LET contractMatches ==
            \A i \in 0..3 : Field(r, i).Contract = pkg.Bidirectional_USDCWETHPair
        eventIdMatches ==
            \A i \in 0..3 : Field(r, i).EventID = pkg.Bidirectional_EventIdSwap
        fieldIndicesCorrect ==
            /\ Field(r, 0).IsTopic = 0
            /\ Field(r, 0).Index = 1
            /\ Field(r, 1).IsTopic = 0
            /\ Field(r, 1).Index = 3
            /\ Field(r, 2).IsTopic = 1
            /\ Field(r, 2).Index = 1
            /\ Field(r, 3).IsTopic = 1
            /\ Field(r, 3).Index = 2
        senderMatches == ToUint248(Field(r, 2).Value) = c.UserAddr
        userMatches == senderMatches
    IN  contractMatches /\ eventIdMatches /\ fieldIndicesCorrect /\ userMatches

BidirectionalAssertEachFn(r, c) ==
    LET contractMatches ==
            /\ Field(r, 0).Contract = pkg.Bidirectional_USDCWETHPair
            /\ Field(r, 1).Contract = pkg.Bidirectional_USDCWETHPair
            /\ Field(r, 2).Contract = pkg.Bidirectional_USDCWETHPair
            /\ Field(r, 3).Contract = pkg.Bidirectional_USDCWETHPair
        eventIdMatches ==
            /\ Field(r, 0).EventID = pkg.Bidirectional_EventIdSwap
            /\ Field(r, 1).EventID = pkg.Bidirectional_EventIdSwap
            /\ Field(r, 2).EventID = pkg.Bidirectional_EventIdSwap
            /\ Field(r, 3).EventID = pkg.Bidirectional_EventIdSwap
        fieldIndicesCorrect ==
            /\ Field(r, 0).IsTopic = 0
            /\ Field(r, 0).Index = 1
            /\ Field(r, 1).IsTopic = 0
            /\ Field(r, 1).Index = 3
            /\ Field(r, 2).IsTopic = 1
            /\ Field(r, 2).Index = 1
            /\ Field(r, 3).IsTopic = 1
            /\ Field(r, 3).Index = 2
        senderMatches == ToUint248(Field(r, 2).Value) = c.UserAddr
        recipientMatches == ToUint248(Field(r, 3).Value) = c.UserAddr
        userMatches == senderMatches \/ recipientMatches
    IN  contractMatches /\ eventIdMatches /\ fieldIndicesCorrect /\ userMatches

\* only the incoming direction is held against its threshold
BidirectionalDefineOneThreshold ==
    << CallNewDataStream("receipts", "Receipts"),
       CallAssertEach("receipts", "bidirectional"),
       CallMap("volumesIn", "receipts", "Fields", 0),
       CallMap("volumesOut", "receipts", "Fields", 1),
       CallSum("totalVolumeIn", "volumesIn"),
       CallSum("totalVolumeOut", "volumesOut"),
       CallAssertIsLessOrEqual(P("MinVolumeIn"), V("totalVolumeIn")),
       CallAdd("totalVolume", V("totalVolumeIn"), V("totalVolumeOut")),
       CallCount("swapCount", "receipts"),
       CallOutputAddress(P("UserAddr")),
       CallOutputUint(Bits248, V("totalVolumeIn")),
       CallOutputUint(Bits248, V("totalVolumeOut")),
       CallOutputUint(Bits248, V("totalVolume")),
       CallOutputUint(Bits64, V("swapCount")),
       CallReturn >>

BidirectionalDefine ==
    << CallNewDataStream("receipts", "Receipts"),
       CallAssertEach("receipts", "bidirectional"),
       CallMap("volumesIn", "receipts", "Fields", 0),
       CallMap("volumesOut", "receipts", "Fields", 1),
       CallSum("totalVolumeIn", "volumesIn"),
       CallSum("totalVolumeOut", "volumesOut"),
       CallAssertIsLessOrEqual(P("MinVolumeIn"), V("totalVolumeIn")),
       CallAssertIsLessOrEqual(P("MinVolumeOut"), V("totalVolumeOut")),
       CallAdd("totalVolume", V("totalVolumeIn"), V("totalVolumeOut")),
       CallCount("swapCount", "receipts"),
       CallOutputAddress(P("UserAddr")),
       CallOutputUint(Bits248, V("totalVolumeIn")),
       CallOutputUint(Bits248, V("totalVolumeOut")),
       CallOutputUint(Bits248, V("totalVolume")),
       CallOutputUint(Bits64, V("swapCount")),
       CallReturn >>

-----------------------------------------------------------------------------
(* sushiswap-bidirectional: amount1In and amount1Out of Swap on SushiSwap *)

SushiBidirectionalAllocate == <<ReceiptCapacity, 0, 0>>

SushiBidirectionalAssertEachFn(r, c) ==
    LET contractMatches ==
            /\ Field(r, 0).Contract = pkg.SushiBidirectional_USDCWETHPair
            /\ Field(r, 1).Contract = pkg.SushiBidirectional_USDCWETHPair
            /\ Field(r, 2).Contract = pkg.SushiBidirectional_USDCWETHPair
            /\ Field(r, 3).Contract = pkg.SushiBidirectional_USDCWETHPair
        eventIdMatches ==
            /\ Field(r, 0).EventID = pkg.SushiBidirectional_EventIdSwap
            /\ Field(r, 1).EventID = pkg.SushiBidirectional_EventIdSwap
            /\ Field(r, 2).EventID = pkg.SushiBidirectional_EventIdSwap
            /\ Field(r, 3).EventID = pkg.SushiBidirectional_EventIdSwap
        fieldIndicesCorrect ==
            /\ Field(r, 0).IsTopic = 0
            /\ Field(r, 0).Index = 1
            /\ Field(r, 1).IsTopic = 0
            /\ Field(r, 1).Index = 3
            /\ Field(r, 2).IsTopic = 1
            /\ Field(r, 2).Index = 1
            /\ Field(r, 3).IsTopic = 1
            /\ Field(r, 3).Index = 2
        senderMatches == ToUint248(Field(r, 2).Value) = c.UserAddr
        recipientMatches == ToUint248(Field(r, 3).Value) = c.UserAddr
        userMatches == senderMatches \/ recipientMatches
    IN  contractMatches /\ eventIdMatches /\ fieldIndicesCorrect /\ userMatches

SushiBidirectionalDefine ==
    << CallNewDataStream("receipts", "Receipts"),
       CallAssertEach("receipts", "sushiBidirectional"),
       CallMap("volumesIn", "receipts", "Fields", 0),
       CallMap("volumesOut", "receipts", "Fields", 1),
       CallSum("totalVolumeIn", "volumesIn"),
       CallSum("totalVolumeOut", "volumesOut"),
       CallAssertIsLessOrEqual(P("MinVolumeIn"), V("totalVolumeIn")),
       CallAssertIsLessOrEqual(P("MinVolumeOut"), V("totalVolumeOut")),
       CallAdd("totalVolume", V("totalVolumeIn"), V("totalVolumeOut")),
       CallCount("swapCount", "receipts"),
       CallOutputAddress(P("UserAddr")),
       CallOutputUint(Bits248, V("totalVolumeIn")),
       CallOutputUint(Bits248, V("totalVolumeOut")),
       CallOutputUint(Bits248, V("totalVolume")),
       CallOutputUint(Bits64, V("swapCount")),
       CallReturn >>

-----------------------------------------------------------------------------
(* layerzero-message: PayloadStored events of the LayerZero endpoint *)

LayerZeroAllocate == <<ReceiptCapacity, 0, 0>>

LayerZeroAssertEachFn(r, c) ==
    LET contractMatches == Field(r, 0).Contract = pkg.LayerZero_EndpointEthereum
        eventIdMatches == Field(r, 0).EventID = pkg.LayerZero_EventIdPayloadStored
        fieldIndexCorrect ==
            /\ Field(r, 0).IsTopic = 0
            /\ Field(r, 0).Index = 2
    IN  contractMatches /\ eventIdMatches /\ fieldIndexCorrect

LayerZeroDefine ==
    << CallNewDataStream("receipts", "Receipts"),
       CallAssertEach("receipts", "layerzero"),
       CallCount("messageCount", "receipts"),
       CallAssertIsLessOrEqual(P("MinMessageCount"), V("messageCount")),
       CallOutputAddress(P("UserAddr")),
       CallOutputUint(Bits64, V("messageCount")),
       CallOutputUint(Bits64, P("MinMessageCount")),
       CallReturn >>

-----------------------------------------------------------------------------
(* nftOwnership: Transfer(from, to, tokenId) of an ERC721 contract *)

NFTAllocate == <<1, 0, 0>>

NFTDefine ==
    << CallNewDataStream("receipts", "Receipts"),
       CallGetUnderlying("receipt", "receipts", 0),
       CallAssertIsEqual(LF("receipt", 0, "Contract"), P("NFTContractAddr"), "PatternMismatch"),
       CallAssertIsEqual(LF("receipt", 0, "IsTopic"), C(1), "PatternMismatch"),
       CallAssertIsEqual(LF("receipt", 0, "Index"), C(2), "PatternMismatch"),
       CallAssertIsEqual(LF("receipt", 0, "Value"), P("OwnerAddr"), "PatternMismatch"),
       CallAssertIsEqual(LF("receipt", 1, "Contract"), P("NFTContractAddr"), "PatternMismatch"),
       CallAssertIsEqual(LF("receipt", 1, "IsTopic"), C(1), "PatternMismatch"),
       CallAssertIsEqual(LF("receipt", 1, "Index"), C(3), "PatternMismatch"),
       CallAssertIsEqual(LF("receipt", 1, "Value"), P("TokenID"), "PatternMismatch"),
       CallAssertIsEqual(LF("receipt", 0, "LogPos"), LF("receipt", 1, "LogPos"), "PatternMismatch"),
       CallOutputAddress(P("OwnerAddr")),
       CallOutputAddress(P("NFTContractAddr")),
       CallOutputUint(Bits248, P("TokenID")),
       CallOutputUint(Bits64, F("receipt", "BlockNum")),
       CallReturn >>

-----------------------------------------------------------------------------
(* tokenHolder: balanceOf[HolderAddr] of USDC *)

TokenHolderAllocate == <<0, 1, 0>>

\* the block number is emitted before the balance
TokenHolderDefineBlockFirst ==
    << CallNewDataStream("slots", "StorageSlots"),
       CallGetUnderlying("slot", "slots", 0),
       CallAssertIsEqual(F("slot", "Contract"), G("TokenHolder_USDCTokenAddr"), "PatternMismatch"),
       CallSlotOfStructFieldInMapping("balanceSlot", 9, 0, P("HolderAddr")),
       CallAssertIsEqual(F("slot", "Slot"), V("balanceSlot"), "PatternMismatch"),
       CallToUint248("balance", F("slot", "Value")),
       CallAssertIsLessOrEqual(G("TokenHolder_minimumBalance"), V("balance")),
       CallOutputAddress(P("HolderAddr")),
       CallOutputUint(Bits64, F("slot", "BlockNum")),
       CallOutputUint(Bits248, V("balance")),
       CallReturn >>

TokenHolderDefine ==
    << CallNewDataStream("slots", "StorageSlots"),
       CallGetUnderlying("slot", "slots", 0),
       CallAssertIsEqual(F("slot", "Contract"), G("TokenHolder_USDCTokenAddr"), "PatternMismatch"),
       CallSlotOfStructFieldInMapping("balanceSlot", 9, 0, P("HolderAddr")),
       CallAssertIsEqual(F("slot", "Slot"), V("balanceSlot"), "PatternMismatch"),
       CallToUint248("balance", F("slot", "Value")),
       CallAssertIsLessOrEqual(G("TokenHolder_minimumBalance"), V("balance")),
       CallOutputAddress(P("HolderAddr")),
       CallOutputUint(Bits248, V("balance")),
       CallOutputUint(Bits64, F("slot", "BlockNum")),
       CallReturn >>

-----------------------------------------------------------------------------
(* multichainbalance: balanceOf[HolderAddr] of USDC on Ethereum and on BSC *)

MultichainAllocate == <<0, 2, 0>>

\* only the contract of the first slot is checked
MultichainDefineFirstContractOnly ==
    << CallNewDataStream("slots", "StorageSlots"),
       CallGetUnderlying("slot0", "slots", 0),
       CallGetUnderlying("slot1", "slots", 1),
       CallAssertIsEqual(F("slot0", "Contract"), G("Multichain_USDCEthereum"), "PatternMismatch"),
       CallSlotOfStructFieldInMapping("balanceSlotEth", 9, 0, P("HolderAddr")),
       CallSlotOfStructFieldInMapping("balanceSlotBsc", 9, 0, P("HolderAddr")),
       CallAssertIsEqual(F("slot0", "Slot"), V("balanceSlotEth"), "PatternMismatch"),
       CallAssertIsEqual(F("slot1", "Slot"), V("balanceSlotBsc"), "PatternMismatch"),
       CallToUint248("balanceEthereum", F("slot0", "Value")),
       CallToUint248("balanceBSC", F("slot1", "Value")),
       CallAdd("totalBalance", V("balanceEthereum"), V("balanceBSC")),
       CallAssertIsLessOrEqual(P("MinTotalBalance"), V("totalBalance")),
       CallOutputAddress(P("HolderAddr")),
       CallOutputUint(Bits248, V("balanceEthereum")),
       CallOutputUint(Bits248, V("balanceBSC")),
       CallOutputUint(Bits248, V("totalBalance")),
       CallOutputUint(Bits248, P("MinTotalBalance")),
       CallReturn >>

MultichainDefine ==
    << CallNewDataStream("slots", "StorageSlots"),
       CallGetUnderlying("slot0", "slots", 0),
       CallGetUnderlying("slot1", "slots", 1),
       CallAssertIsEqual(F("slot0", "Contract"), G("Multichain_USDCEthereum"), "PatternMismatch"),
       CallAssertIsEqual(F("slot1", "Contract"), G("Multichain_USDC_BSC"), "PatternMismatch"),
       CallSlotOfStructFieldInMapping("balanceSlotEth", 9, 0, P("HolderAddr")),
       CallSlotOfStructFieldInMapping("balanceSlotBsc", 9, 0, P("HolderAddr")),
       CallAssertIsEqual(F("slot0", "Slot"), V("balanceSlotEth"), "PatternMismatch"),
       CallAssertIsEqual(F("slot1", "Slot"), V("balanceSlotBsc"), "PatternMismatch"),
       CallToUint248("balanceEthereum", F("slot0", "Value")),
       CallToUint248("balanceBSC", F("slot1", "Value")),
       CallAdd("totalBalance", V("balanceEthereum"), V("balanceBSC")),
       CallAssertIsLessOrEqual(P("MinTotalBalance"), V("totalBalance")),
       CallOutputAddress(P("HolderAddr")),
       CallOutputUint(Bits248, V("balanceEthereum")),
       CallOutputUint(Bits248, V("balanceBSC")),
       CallOutputUint(Bits248, V("totalBalance")),
       CallOutputUint(Bits248, P("MinTotalBalance")),
       CallReturn >>

-----------------------------------------------------------------------------
(* uniswapv2twap: price1CumulativeLast of a pair at two blocks *)

TWAPAllocate == <<0, 2, 0>>

TWAPAssertEachFn(s, c) ==
    LET contractMatches == s.Contract = c.PairAddr
    IN  contractMatches

\* the upper bound of the price range is not asserted
TWAPDefineNoUpperBound ==
    << CallNewDataStream("slots", "StorageSlots"),
       CallAssertEach("slots", "twap"),
       CallMap("prices", "slots", "Slot", 0),
       CallSum("totalPrices", "prices"),
       CallCount("slotCount", "slots"),
       CallAssertIsEqual(V("slotCount"), C(2), "CapacityMismatch"),
       CallAssertIsLessOrEqual(P("MinPrice"), V("totalPrices")),
       CallSub("blockRange", P("EndBlock"), P("StartBlock")),
       CallOutputAddress(P("PairAddr")),
       CallOutputUint(Bits248, V("totalPrices")),
       CallOutputUint(Bits248, P("MinPrice")),
       CallOutputUint(Bits248, P("MaxPrice")),
       CallOutputUint(Bits64, V("blockRange")),
       CallReturn >>

\* the block range is emitted as a 248-bit value
TWAPDefineWideBlockRange ==
    << CallNewDataStream("slots", "StorageSlots"),
       CallAssertEach("slots", "twap"),
       CallMap("prices", "slots", "Slot", 0),
       CallSum("totalPrices", "prices"),
       CallCount("slotCount", "slots"),
       CallAssertIsEqual(V("slotCount"), C(2), "CapacityMismatch"),
       CallAssertIsLessOrEqual(P("MinPrice"), V("totalPrices")),
       CallAssertIsLessOrEqual(V("totalPrices"), P("MaxPrice")),
       CallSub("blockRange", P("EndBlock"), P("StartBlock")),
       CallOutputAddress(P("PairAddr")),
       CallOutputUint(Bits248, V("totalPrices")),
       CallOutputUint(Bits248, P("MinPrice")),
       CallOutputUint(Bits248, P("MaxPrice")),
       CallOutputUint(Bits248, V("blockRange")),
       CallReturn >>

TWAPDefine ==
    << CallNewDataStream("slots", "StorageSlots"),
       CallAssertEach("slots", "twap"),
       CallMap("prices", "slots", "Slot", 0),
       CallSum("totalPrices", "prices"),
       CallCount("slotCount", "slots"),
       CallAssertIsEqual(V("slotCount"), C(2), "CapacityMismatch"),
       CallAssertIsLessOrEqual(P("MinPrice"), V("totalPrices")),
       CallAssertIsLessOrEqual(V("totalPrices"), P("MaxPrice")),
       CallSub("blockRange", P("EndBlock"), P("StartBlock")),
       CallOutputAddress(P("PairAddr")),
       CallOutputUint(Bits248, V("totalPrices")),
       CallOutputUint(Bits248, P("MinPrice")),
       CallOutputUint(Bits248, P("MaxPrice")),
       CallOutputUint(Bits64, V("blockRange")),
       CallReturn >>

-----------------------------------------------------------------------------
(* balancerweighted: Swap(poolId, tokenIn, tokenOut, amountIn, amountOut)  *)
(* of the Balancer V2 Vault                                                *)

BalancerAllocate == <<ReceiptCapacity, 0, 0>>

BalancerAssertEachFn(r, c) ==
    LET contractMatches ==
            /\ Field(r, 0).Contract = pkg.Balancer_VaultAddress
            /\ Field(r, 1).Contract = pkg.Balancer_VaultAddress
        eventIdMatches ==
            /\ Field(r, 0).EventID = pkg.Balancer_EventIdSwap
            /\ Field(r, 1).EventID = pkg.Balancer_EventIdSwap
        fieldIndicesCorrect ==
            /\ Field(r, 0).IsTopic = 0
            /\ Field(r, 0).Index = 1
            /\ Field(r, 1).IsTopic = 1
            /\ Field(r, 1).Index = 3
    IN  contractMatches /\ eventIdMatches /\ fieldIndicesCorrect

BalancerDefine ==
    << CallNewDataStream("receipts", "Receipts"),
       CallAssertEach("receipts", "balancer"),
       CallMap("volumes", "receipts", "Fields", 0),
       CallSum("totalVolume", "volumes"),
       CallAssertIsLessOrEqual(P("MinVolume"), V("totalVolume")),
       CallCount("swapCount", "receipts"),
       CallOutputAddress(P("UserAddr")),
       CallOutputUint(Bits248, V("totalVolume")),
       CallOutputUint(Bits248, P("MinVolume")),
       CallOutputUint(Bits64, V("swapCount")),
       CallReturn >>

-----------------------------------------------------------------------------
(* uniswapv2lp: Mint(sender, amount0, amount1) of the USDC/WETH pair *)

UniswapV2LPAllocate == <<ReceiptCapacity, 0, 0>>

UniswapV2LPAssertEachFn(r, c) ==
    LET contractMatches ==
            /\ Field(r, 0).Contract = pkg.UniswapV2LP_USDCWETHPair
            /\ Field(r, 1).Contract = pkg.UniswapV2LP_USDCWETHPair
            /\ Field(r, 2).Contract = pkg.UniswapV2LP_USDCWETHPair
        eventIdMatches ==
            /\ Field(r, 0).EventID = pkg.UniswapV2LP_EventIdMint
            /\ Field(r, 1).EventID = pkg.UniswapV2LP_EventIdMint
            /\ Field(r, 2).EventID = pkg.UniswapV2LP_EventIdMint
        fieldIndicesCorrect ==
            /\ Field(r, 0).IsTopic = 1
            /\ Field(r, 0).Index = 1
            /\ Field(r, 1).IsTopic = 0
            /\ Field(r, 1).Index = 0
            /\ Field(r, 2).IsTopic = 0
            /\ Field(r, 2).Index = 1
        userMatches == ToUint248(Field(r, 0).Value) = c.UserAddr
    IN  contractMatches /\ eventIdMatches /\ fieldIndicesCorrect /\ userMatches

UniswapV2LPDefine ==
    << CallNewDataStream("receipts", "Receipts"),
       CallAssertEach("receipts", "uniswapV2LP"),
       CallMap("liquidityToken0", "receipts", "Fields", 1),
       CallMap("liquidityToken1", "receipts", "Fields", 2),
       CallSum("totalLiquidityToken0", "liquidityToken0"),
       CallSum("totalLiquidityToken1", "liquidityToken1"),
       CallAssertIsLessOrEqual(P("MinLiquidityV0"), V("totalLiquidityToken0")),
       CallAssertIsLessOrEqual(P("MinLiquidityV1"), V("totalLiquidityToken1")),
       CallCount("mintCount", "receipts"),
       CallOutputAddress(P("UserAddr")),
       CallOutputUint(Bits248, V("totalLiquidityToken0")),
       CallOutputUint(Bits248, V("totalLiquidityToken1")),
       CallOutputUint(Bits64, V("mintCount")),
       CallReturn >>

-----------------------------------------------------------------------------
(* uniswapv3twap: oracle observations of a pool at two blocks *)

TWAPV3Allocate == <<0, 2, 0>>

\* a slot of any contract is accepted
TWAPV3AssertEachFnAnyContract(s, c) == TRUE

TWAPV3AssertEachFn(s, c) ==
    LET contractMatches == s.Contract = c.PoolAddr
    IN  contractMatches

TWAPV3Define ==
    << CallNewDataStream("slots", "StorageSlots"),
       CallAssertEach("slots", "twapV3"),
       CallMap("observations", "slots", "Slot", 0),
       CallSum("totalObservations", "observations"),
       CallCount("slotCount", "slots"),
       CallAssertIsEqual(V("slotCount"), C(2), "CapacityMismatch"),
       CallAssertIsLessOrEqual(P("MinPrice"), V("totalObservations")),
       CallAssertIsLessOrEqual(V("totalObservations"), P("MaxPrice")),
       CallSub("blockRange", P("EndBlock"), P("StartBlock")),
       CallOutputAddress(P("PoolAddr")),
       CallOutputUint(Bits248, V("totalObservations")),
       CallOutputUint(Bits248, P("MinPrice")),
       CallOutputUint(Bits248, P("MaxPrice")),
       CallOutputUint(Bits64, V("blockRange")),
       CallReturn >>

-----------------------------------------------------------------------------
(* uniswapV3: Swap(sender, recipient, int256 amount0, int256 amount1,      *)
(* sqrtPriceX96, liquidity, tick); the amounts are signed 256-bit words    *)

\* the 32-byte two's-complement word of a signed amount
Int256(a) == IF a >= 0 THEN a ELSE 2^WordBytes + a

\* the signed amount a 32-byte word stands for
FromInt256(w) == IF w >= 2^(WordBytes - 1) THEN w - 2^WordBytes ELSE w

UniswapV3Allocate == <<ReceiptCapacity, 0, 0>>

UniswapV3AssertEachFn(r, c) ==
    LET contractMatches ==
            /\ Field(r, 0).Contract = pkg.UniswapV3_USDCWETHPool_005
            /\ Field(r, 1).Contract = pkg.UniswapV3_USDCWETHPool_005
        eventIdMatches ==
            /\ Field(r, 0).EventID = pkg.UniswapV3_EventIdSwap
            /\ Field(r, 1).EventID = pkg.UniswapV3_EventIdSwap
        fieldIndicesCorrect ==
            /\ Field(r, 0).IsTopic = 0
            /\ Field(r, 0).Index = 1
            /\ Field(r, 1).IsTopic = 1
            /\ Field(r, 1).Index = 2
        userMatches == ToUint248(Field(r, 1).Value) = c.UserAddr
    IN  contractMatches /\ eventIdMatches /\ fieldIndicesCorrect /\ userMatches

UniswapV3Define ==
    << CallNewDataStream("receipts", "Receipts"),
       CallAssertEach("receipts", "uniswapV3"),
       CallMap("volumes", "receipts", "Fields", 0),
       CallSum("totalVolume", "volumes"),
       CallAssertIsLessOrEqual(P("MinVolume"), V("totalVolume")),
       CallCount("swapCount", "receipts"),
       CallOutputAddress(P("UserAddr")),
       CallOutputUint(Bits248, V("totalVolume")),
       CallOutputUint(Bits248, P("MinVolume")),
       CallOutputUint(Bits64, V("swapCount")),
       CallReturn >>

-----------------------------------------------------------------------------
(* The circuits and their dispatch *)

Circuits ==
    {"compound", "sushiswap", "polygonBridge", "curve", "bidirectional",
     "sushiBidirectional", "uniswapV3", "balancer", "uniswapV2LP",
     "layerzero", "nftOwnership", "tokenHolder", "multichain", "twap",
     "twapV3"}

\* the price-range circuits
TWAPCircuits == {"twap", "twapV3"}

Allocate(c) ==
    CASE c = "compound" -> CompoundAllocate
      [] c = "sushiswap" -> SushiswapAllocate
      [] c = "polygonBridge" -> PolygonBridgeAllocate
      [] c = "curve" -> CurveAllocate
      [] c = "bidirectional" -> BidirectionalAllocate
      [] c = "sushiBidirectional" -> SushiBidirectionalAllocate
      [] c = "uniswapV3" -> UniswapV3Allocate
      [] c = "balancer" -> BalancerAllocate
      [] c = "uniswapV2LP" -> UniswapV2LPAllocate
      [] c = "layerzero" -> LayerZeroAllocate
      [] c = "nftOwnership" -> NFTAllocate
      [] c = "tokenHolder" -> TokenHolderAllocate
      [] c = "multichain" -> MultichainAllocate
      [] c = "twap" -> TWAPAllocate
      [] c = "twapV3" -> TWAPV3Allocate

Define(c) ==
    CASE c = "compound" -> CompoundDefine
      [] c = "sushiswap" -> SushiswapDefine
      [] c = "polygonBridge" -> PolygonBridgeDefine
      [] c = "curve" -> CurveDefine
      [] c = "bidirectional" -> BidirectionalDefine
      [] c = "sushiBidirectional" -> SushiBidirectionalDefine
      [] c = "uniswapV3" -> UniswapV3Define
      [] c = "balancer" -> BalancerDefine
      [] c = "uniswapV2LP" -> UniswapV2LPDefine
      [] c = "layerzero" -> LayerZeroDefine
      [] c = "nftOwnership" -> NFTDefine
      [] c = "tokenHolder" -> TokenHolderDefine
      [] c = "multichain" -> MultichainDefine
      [] c = "twap" -> TWAPDefine
      [] c = "twapV3" -> TWAPV3Define

\* the function handed to sdk.AssertEach
AssertEachFn(fn, r, c) ==
    CASE fn = "compound" -> CompoundAssertEachFn(r, c)
      [] fn = "sushiswap" -> SushiswapAssertEachFn(r, c)
      [] fn = "polygonBridge" -> PolygonBridgeAssertEachFn(r, c)
      [] fn = "curve" -> CurveAssertEachFn(r, c)
      [] fn = "bidirectional" -> BidirectionalAssertEachFn(r, c)
      [] fn = "sushiBidirectional" -> SushiBidirectionalAssertEachFn(r, c)
      [] fn = "uniswapV3" -> UniswapV3AssertEachFn(r, c)
      [] fn = "balancer" -> BalancerAssertEachFn(r, c)
      [] fn = "uniswapV2LP" -> UniswapV2LPAssertEachFn(r, c)
      [] fn = "layerzero" -> LayerZeroAssertEachFn(r, c)
      [] fn = "twap" -> TWAPAssertEachFn(r, c)
      [] fn = "twapV3" -> TWAPV3AssertEachFn(r, c)

\* the function handed to sdk.Map: api.ToUint248(r.Fields[i].Value) of a
\* receipt, api.ToUint248(s.Value) of a storage slot
MapFn(fn, i, r) ==
    IF fn = "Slot" THEN ToUint248(r.Value)
                   ELSE ToUint248(Field(r, i).Value)

\* local variables of the Define bodies
Locals ==
    {"receipts", "supplies", "totalSupply", "mintCount", "volumes",
     "totalVolume", "swapCount", "amounts", "totalBridged", "bridgeCount",
     "exchangeCount", "volumesIn", "volumesOut", "totalVolumeIn",
     "totalVolumeOut", "receipt", "slots", "slot", "balanceSlot",
     "balance", "slot0", "slot1", "balanceSlotEth", "balanceSlotBsc",
     "balanceEthereum", "balanceBSC", "totalBalance", "prices",
     "totalPrices", "slotCount", "blockRange", "messageCount",
     "observations", "totalObservations", "liquidityToken0",
     "liquidityToken1", "totalLiquidityToken0", "totalLiquidityToken1"}

-----------------------------------------------------------------------------
(* The declared layout of the evidence of each circuit: for every tracked  *)
(* log field its contract, event, topic flag and index, for every storage  *)
(* slot its contract and slot key, as the circuit sources document them.   *)

Pattern(contract, eventID, isTopic, index) ==
    [Contract |-> contract, EventID |-> eventID, IsTopic |-> isTopic, Index |-> index]

DeclaredFields(c, p) ==
    CASE c = "compound" ->
            << Pattern(Compound_cUSDCAddress, Compound_EventIdMint, 0, 1),
               Pattern(Compound_cUSDCAddress, Compound_EventIdMint, 0, 0) >>
      [] c = "sushiswap" ->
            << Pattern(Sushiswap_USDCWETHPair, Sushiswap_EventIdSwap, 0, 3),
               Pattern(Sushiswap_USDCWETHPair, Sushiswap_EventIdSwap, 1, 2) >>
      [] c = "polygonBridge" ->
            << Pattern(PolygonBridge_RootChainManager, PolygonBridge_EventIdLockedEther, 0, 0),
               Pattern(PolygonBridge_RootChainManager, PolygonBridge_EventIdLockedEther, 1, 1) >>
      [] c = "curve" ->
            << Pattern(Curve_ThreePoolAddress, Curve_EventIdTokenExchange, 0, 3),
               Pattern(Curve_ThreePoolAddress, Curve_EventIdTokenExchange, 1, 1) >>
      [] c = "bidirectional" ->
            << Pattern(Bidirectional_USDCWETHPair, Bidirectional_EventIdSwap, 0, 1),
               Pattern(Bidirectional_USDCWETHPair, Bidirectional_EventIdSwap, 0, 3),
               Pattern(Bidirectional_USDCWETHPair, Bidirectional_EventIdSwap, 1, 1),
               Pattern(Bidirectional_USDCWETHPair, Bidirectional_EventIdSwap, 1, 2) >>
      [] c = "sushiBidirectional" ->
            << Pattern(SushiBidirectional_USDCWETHPair, SushiBidirectional_EventIdSwap, 0, 1),
               Pattern(SushiBidirectional_USDCWETHPair, SushiBidirectional_EventIdSwap, 0, 3),
               Pattern(SushiBidirectional_USDCWETHPair, SushiBidirectional_EventIdSwap, 1, 1),
               Pattern(SushiBidirectional_USDCWETHPair, SushiBidirectional_EventIdSwap, 1, 2) >>
      [] c = "uniswapV3" ->
            << Pattern(UniswapV3_USDCWETHPool_005, UniswapV3_EventIdSwap, 0, 1),
               Pattern(UniswapV3_USDCWETHPool_005, UniswapV3_EventIdSwap, 1, 2) >>
      [] c = "balancer" ->
            << Pattern(Balancer_VaultAddress, Balancer_EventIdSwap, 0, 1),
               Pattern(Balancer_VaultAddress, Balancer_EventIdSwap, 1, 3) >>
      [] c = "uniswapV2LP" ->
            << Pattern(UniswapV2LP_USDCWETHPair, UniswapV2LP_EventIdMint, 1, 1),
               Pattern(UniswapV2LP_USDCWETHPair, UniswapV2LP_EventIdMint, 0, 0),
               Pattern(UniswapV2LP_USDCWETHPair, UniswapV2LP_EventIdMint, 0, 1) >>
      [] c = "layerzero" ->
            << Pattern(LayerZero_EndpointEthereum, LayerZero_EventIdPayloadStored, 0, 2) >>
      [] c = "nftOwnership" ->
            << Pattern(p.NFTContractAddr, NFT_EventIdTransfer, 1, 2),
               Pattern(p.NFTContractAddr, NFT_EventIdTransfer, 1, 3) >>
      [] OTHER -> << >>

SlotPattern(contract, slot) == [Contract |-> contract, Slot |-> slot]

DeclaredSlots(c, p) ==
    CASE c = "tokenHolder" ->
            << SlotPattern(TokenHolder_USDCTokenAddr,
                           SlotOfStructFieldInMapping(9, 0, p.HolderAddr)) >>
      [] c = "multichain" ->
            << SlotPattern(Multichain_USDCEthereum,
                           SlotOfStructFieldInMapping(9, 0, p.HolderAddr)),
               SlotPattern(Multichain_USDC_BSC,
                           SlotOfStructFieldInMapping(9, 0, p.HolderAddr)) >>
      [] c = "twap" ->
            << SlotPattern(p.PairAddr, PlainSlot(Slot_Price1CumulativeLast)),
               SlotPattern(p.PairAddr, PlainSlot(Slot_Price1CumulativeLast)) >>
      [] c = "twapV3" ->
            << SlotPattern(p.PoolAddr, PlainSlot(Slot_Observations)),
               SlotPattern(p.PoolAddr, PlainSlot(Slot_Observations)) >>
      [] OTHER -> << >>

\* the values a pattern binds to circuit parameters (the user under proof),
\* and for nftOwnership that both fields come from one log entry
DeclaredValuesOk(c, p, r) ==
    CASE c \in {"compound", "sushiswap", "polygonBridge", "curve", "uniswapV3"} ->
            ToUint248(Field(r, 1).Value) = p.UserAddr
      [] c = "uniswapV2LP" -> ToUint248(Field(r, 0).Value) = p.UserAddr
      [] c \in {"bidirectional", "sushiBidirectional"} ->
            \/ ToUint248(Field(r, 2).Value) = p.UserAddr
            \/ ToUint248(Field(r, 3).Value) = p.UserAddr
      [] c = "nftOwnership" ->
            /\ ToUint248(Field(r, 0).Value) = p.OwnerAddr
            /\ ToUint248(Field(r, 1).Value) = p.TokenID
            /\ Field(r, 0).LogPos = Field(r, 1).LogPos
      [] OTHER -> TRUE

-----------------------------------------------------------------------------
(* Inputs of an invocation *)

Params(c) ==
    CASE c = "compound" -> [UserAddr : UserAddrs, MinSupply : Thresholds]
      [] c = "sushiswap" -> [UserAddr : UserAddrs, MinVolume : Thresholds]
      [] c = "polygonBridge" -> [UserAddr : UserAddrs, MinBridgeAmount : Thresholds]
      [] c = "curve" -> [UserAddr : UserAddrs, MinVolume : Thresholds]
      [] c = "bidirectional" ->
            [UserAddr : UserAddrs, MinVolumeIn : {0, 1, MaxU248}, MinVolumeOut : {0, 1, MaxU248}]
      [] c = "sushiBidirectional" ->
            [UserAddr : UserAddrs, MinVolumeIn : {1, MaxU248}, MinVolumeOut : {1, MaxU248}]
      [] c = "uniswapV3" -> [UserAddr : UserAddrs, MinVolume : {1, 2}]
      [] c = "balancer" -> [UserAddr : UserAddrs, MinVolume : {1, 2}]
      [] c = "uniswapV2LP" ->
            [UserAddr : UserAddrs, MinLiquidityV0 : {0, 1}, MinLiquidityV1 : {1}]
      [] c = "layerzero" -> [UserAddr : UserAddrs, MinMessageCount : Thresholds]
      [] c = "nftOwnership" -> [NFTContractAddr : {1}, OwnerAddr : UserAddrs, TokenID : {5}]
      [] c = "tokenHolder" -> [HolderAddr : UserAddrs]
      [] c = "multichain" -> [HolderAddr : UserAddrs, MinTotalBalance : Thresholds]
      [] c = "twap" ->
            [PairAddr : {1}, MinPrice : Thresholds, MaxPrice : Thresholds,
             StartBlock : {1, 2}, EndBlock : {1, MaxU248}]
      [] c = "twapV3" ->
            [PoolAddr : {1}, MinPrice : {1, 2}, MaxPrice : {1, MaxU248},
             StartBlock : {1}, EndBlock : {1, MaxU248}]

\* the values of the tracked fields of a well-tagged receipt
ValueVectors(c, p) ==
    CASE c \in {"compound", "sushiswap", "polygonBridge", "curve"} ->
            {<<a, p.UserAddr>> : a \in Amounts} \cup {<<1, OtherAddr(p.UserAddr)>>}
      [] c = "bidirectional" ->
            {<<a, b, p.UserAddr, p.UserAddr>> : a \in Amounts, b \in Amounts}
            \cup {<<1, 1, p.UserAddr, OtherAddr(p.UserAddr)>>,
                  <<1, 1, OtherAddr(p.UserAddr), p.UserAddr>>,
                  <<1, 1, OtherAddr(p.UserAddr), OtherAddr(p.UserAddr)>>}
      [] c = "sushiBidirectional" ->
            {<<a, b, p.UserAddr, p.UserAddr>> : a \in {1, MaxU248}, b \in {0, 1}}
            \cup {<<1, 1, p.UserAddr, OtherAddr(p.UserAddr)>>,
                  <<1, 1, OtherAddr(p.UserAddr), p.UserAddr>>,
                  <<1, 1, OtherAddr(p.UserAddr), OtherAddr(p.UserAddr)>>}
      [] c = "uniswapV3" ->
            {<<Int256(a), p.UserAddr>> : a \in SignedAmounts}
            \cup {<<1, OtherAddr(p.UserAddr)>>}
      [] c = "balancer" ->
            {<<a, t>> : a \in {1, MaxU248}, t \in {p.UserAddr, OtherAddr(p.UserAddr)}}
      [] c = "uniswapV2LP" ->
            {<<p.UserAddr, a, b>> : a \in {0, 1}, b \in {1, MaxU248}}
            \cup {<<OtherAddr(p.UserAddr), 1, 1>>}
      [] c = "layerzero" -> {<<1>>, <<MaxU248>>}
      [] c = "nftOwnership" ->
            {<<p.OwnerAddr, p.TokenID>>, <<OtherAddr(p.OwnerAddr), p.TokenID>>,
             <<p.OwnerAddr, p.TokenID + 1>>}

BaseValues(c, p) ==
    CASE c \in {"compound", "sushiswap", "polygonBridge", "curve", "uniswapV3"} ->
            <<1, p.UserAddr>>
      [] c \in {"bidirectional", "sushiBidirectional"} -> <<1, 1, p.UserAddr, p.UserAddr>>
      [] c = "balancer" -> <<1, OtherAddr(p.UserAddr)>>
      [] c = "uniswapV2LP" -> <<p.UserAddr, 1, 1>>
      [] c = "layerzero" -> <<1>>
      [] c = "nftOwnership" -> <<p.OwnerAddr, p.TokenID>>

GoodReceipt(c, p, vals, bn) ==
    LET d == DeclaredFields(c, p)
    IN  Receipt(bn, [i \in 1..Len(d) |->
                        LogField(d[i].Contract, 0, d[i].EventID, d[i].IsTopic,
                                 d[i].Index, vals[i])])

Attrs == {"Contract", "EventID", "IsTopic", "Index", "LogPos"}

\* the receipt with one attribute of one field changed
Deviate(r, i, attr) ==
    CASE attr = "Contract" -> [r EXCEPT !.Fields[i].Contract = OtherAddr(@)]
      [] attr = "EventID" -> [r EXCEPT !.Fields[i].EventID = OtherEvent(@)]
      [] attr = "IsTopic" -> [r EXCEPT !.Fields[i].IsTopic = 1 - @]
      [] attr = "Index" -> [r EXCEPT !.Fields[i].Index = @ + 1]
      [] attr = "LogPos" -> [r EXCEPT !.Fields[i].LogPos = @ + 1]

GoodReceipts(c, p) ==
    {GoodReceipt(c, p, v, bn) : v \in ValueVectors(c, p), bn \in BlockNums}

\* the receipts of a batch whose size is not the declared capacity
FillerReceipts(c, p) ==
    {GoodReceipt(c, p, [BaseValues(c, p) EXCEPT ![1] = a], bn) :
        a \in {1, MaxU248}, bn \in BlockNums}

\* receipts with one attribute of one field off the declared layout
DeviatingReceipts(c, p) ==
    {Deviate(GoodReceipt(c, p, BaseValues(c, p), bn), i, attr) :
        i \in 1..Len(DeclaredFields(c, p)), attr \in Attrs, bn \in BlockNums}

\* another slot key: the neighbouring plain slot, another holder's entry
OtherSlot(k) ==
    IF Len(k) = 1 THEN <<k[1] - 1>> ELSE <<k[1], k[2], OtherAddr(k[3])>>

\* the values of the slots: for the balance proof also the minimum balance
\* and a balance above it
SlotValues(c) ==
    IF c = "tokenHolder"
    THEN Amounts \cup {TokenHolder_minimumBalance, TokenHolder_minimumBalance + 1}
    ELSE Amounts

GoodSlots(c, p) ==
    {StorageSlot(bn, DeclaredSlots(c, p)[i].Contract, DeclaredSlots(c, p)[i].Slot, a) :
        i \in 1..Len(DeclaredSlots(c, p)), a \in SlotValues(c), bn \in BlockNums}

\* slots of another contract, slots of the contract under another key
DeviatingSlots(c, p) ==
    {StorageSlot(bn, OtherAddr(DeclaredSlots(c, p)[i].Contract), DeclaredSlots(c, p)[i].Slot, 1) :
        i \in 1..Len(DeclaredSlots(c, p)), bn \in BlockNums}
    \cup
    {StorageSlot(bn, DeclaredSlots(c, p)[i].Contract, OtherSlot(DeclaredSlots(c, p)[i].Slot), 1) :
        i \in 1..Len(DeclaredSlots(c, p)), bn \in BlockNums}

\* batches of exactly the declared capacity: well-tagged records, of which
\* at most one is replaced by a deviating record; batches of another size
\* (none .. one more than declared) carry filler records
Batches(good, deviating, filler, cap) ==
    [1..cap -> good]
    \cup {[b EXCEPT ![i] = d] : b \in [1..cap -> good], i \in 1..cap, d \in deviating}
    \cup UNION {[1..n -> filler] : n \in (0..(cap + 1)) \ {cap}}

Inputs(c, p) ==
    IF Allocate(c)[1] > 0
    THEN {DataInput(b, << >>) :
            b \in Batches(GoodReceipts(c, p), DeviatingReceipts(c, p),
                          FillerReceipts(c, p), Allocate(c)[1])}
    ELSE {DataInput(<< >>, b) :
            b \in Batches(GoodSlots(c, p), DeviatingSlots(c, p),
                          GoodSlots(c, p), Allocate(c)[2])}

-----------------------------------------------------------------------------
(* One invocation *)

vars == <<circuit, params, input, pc, phase, env, output, buffer, err, pkg, peer,
          prog>>

Terminal == {"Done", "Failed"}

\* the part of the state a step changes
State ==
    [pc |-> pc, phase |-> phase, env |-> env, output |-> output,
     buffer |-> buffer, err |-> err]

\* the value of a local before its statement has run: the zero value of
\* its type (a stream or slot key, a receipt, a storage slot, a number)
Zero(l) ==
    CASE l \in {"receipts", "slots", "supplies", "volumes", "amounts",
                "volumesIn", "volumesOut", "prices", "observations",
                "liquidityToken0", "liquidityToken1",
                "balanceSlot",
                "balanceSlotEth", "balanceSlotBsc"} -> << >>
      [] l = "receipt" -> Receipt(0, << >>)
      [] l \in {"slot", "slot0", "slot1"} -> StorageSlot(0, 0, << >>, 0)
      [] OTHER -> 0

InitialState ==
    [pc |-> 1, phase |-> "Uninitialized", env |-> [l \in Locals |-> Zero(l)],
     output |-> << >>, buffer |-> << >>, err |-> "None"]

\* every failure is reported as one generic error
FailGeneric(st, kind) == [st EXCEPT !.phase = "Failed", !.err = "VerificationFailed"]

\* a failed assertion: the proof cannot be constructed
Fail(st, kind) == [st EXCEPT !.phase = "Failed", !.err = kind]

\* a failed output encoding: no output buffer is left
FailOutput(st, kind) ==
    [st EXCEPT !.phase = "Failed", !.err = kind, !.output = << >>,
               !.buffer = << >>]

Advance(st, ph) == [st EXCEPT !.pc = @ + 1, !.phase = ph]

Assign(st, dst, val) == [st EXCEPT !.env[dst] = val]

\* the value of an operand; every .Value is read through api.ToUint248
Eval(o, p, e) ==
    CASE o.k = "const" -> o.n
      [] o.k = "param" -> p[o.s]
      [] o.k = "global" -> pkg[o.s]
      [] o.k = "var" -> e[o.s]
      [] o.k = "field" ->
            IF o.f = "Value" THEN ToUint248(e[o.s].Value) ELSE e[o.s][o.f]
      [] o.k = "logfield" ->
            IF o.f = "Value" THEN ToUint248(Field(e[o.s], o.n).Value)
                             ELSE Field(e[o.s], o.n)[o.f]

\* the stream takes a batch of any size up to the declared capacity
DoNewDataStreamUpTo(c, in, ins, st) ==
    IF Len(in.Receipts) > Allocate(c)[1] \/ Len(in.StorageSlots) > Allocate(c)[2]
    THEN Fail(st, "CapacityMismatch")
    ELSE Advance(Assign(st, ins.dst, in[ins.src]), "BatchLoaded")

\* sdk.NewDataStream: the batch must fill the declared capacity exactly
DoNewDataStream(c, in, ins, st) ==
    IF Len(in.Receipts) # Allocate(c)[1] \/ Len(in.StorageSlots) # Allocate(c)[2]
    THEN Fail(st, "CapacityMismatch")
    ELSE Advance(Assign(st, ins.dst, in[ins.src]), "BatchLoaded")

\* sdk.GetUnderlying
DoGetUnderlying(ins, st) ==
    Advance(Assign(st, ins.dst, st.env[ins.src][ins.n + 1]), st.phase)

\* sdk.AssertEach: every record of the stream must satisfy the function
DoAssertEach(p, ins, st) ==
    IF \A i \in 1..Len(st.env[ins.src]) : AssertEachFn(ins.f, st.env[ins.src][i], p)
    THEN Advance(st, "Validated")
    ELSE Fail(st, ins.err)

\* AssertIsEqual of api.Uint248, api.Bytes32, api.Uint32
DoAssertIsEqual(p, ins, st) ==
    IF Eval(ins.a, p, st.env) = Eval(ins.b, p, st.env)
    THEN Advance(st, IF ins.err = "PatternMismatch" THEN "Validated" ELSE "Asserted")
    ELSE Fail(st, ins.err)

\* u248.AssertIsLessOrEqual(a, b): a <= b
DoAssertIsLessOrEqual(p, ins, st) ==
    IF Eval(ins.a, p, st.env) <= Eval(ins.b, p, st.env)
    THEN Advance(st, "Asserted")
    ELSE Fail(st, ins.err)

DoSlotOfStructFieldInMapping(p, ins, st) ==
    Advance(Assign(st, ins.dst,
                   SlotOfStructFieldInMapping(ins.n, Eval(ins.a, p, st.env),
                                              Eval(ins.b, p, st.env))),
            st.phase)

DoToUint248(p, ins, st) ==
    Advance(Assign(st, ins.dst, Eval(ins.a, p, st.env)), "Aggregated")

\* the projection drains the stream it reads
DoMapConsuming(ins, st) ==
    Advance(Assign(Assign(st, ins.dst,
                          [i \in 1..Len(st.env[ins.src]) |->
                               MapFn(ins.f, ins.n, st.env[ins.src][i])]),
                   ins.src, << >>),
            "Aggregated")

\* sdk.Map
DoMap(ins, st) ==
    Advance(Assign(st, ins.dst,
                   [i \in 1..Len(st.env[ins.src]) |->
                        MapFn(ins.f, ins.n, st.env[ins.src][i])]),
            "Aggregated")

DoSum(ins, st) ==
    LET r == Sum(st.env[ins.src])
    IN  IF r.ok THEN Advance(Assign(st, ins.dst, r.val), "Aggregated")
                ELSE Fail(st, "Overflow")

DoCount(ins, st) ==
    Advance(Assign(st, ins.dst, Count(st.env[ins.src])), "Aggregated")

DoAdd(p, ins, st) ==
    LET r == CheckedAdd(Eval(ins.a, p, st.env), Eval(ins.b, p, st.env))
    IN  IF r.ok THEN Advance(Assign(st, ins.dst, r.val), "Aggregated")
                ELSE Fail(st, "Overflow")

DoSub(p, ins, st) ==
    LET r == CheckedSub(Eval(ins.a, p, st.env), Eval(ins.b, p, st.env))
    IN  IF r.ok THEN Advance(Assign(st, ins.dst, r.val), "Aggregated")
                ELSE Fail(st, "Overflow")

\* api.OutputAddress, api.OutputUint: a value wider than the declared width
\* fails the invocation, otherwise it is appended to the output and its
\* slot to the output buffer
DoOutput(p, ins, st) ==
    LET v == Eval(ins.a, p, st.env)
    IN  IF FitsIn(ins.n, v)
        THEN Advance([st EXCEPT !.output = Append(@, [bits |-> ins.n, val |-> v]),
                                !.buffer = @ \o EncodeValue(ins.n, v)],
                     "OutputEncoded")
        ELSE FailOutput(st, "Overflow")

\* the return leaves the invocation where it is
DoReturnStay(st) == st

DoReturn(st) == Advance(st, "Done")

\* the effect of the statement at st.pc
Exec(c, p, in, st) ==
    LET ins == Define(c)[st.pc]
    IN  CASE ins.op = "NewDataStream" -> DoNewDataStream(c, in, ins, st)
          [] ins.op = "GetUnderlying" -> DoGetUnderlying(ins, st)
          [] ins.op = "AssertEach" -> DoAssertEach(p, ins, st)
          [] ins.op = "AssertIsEqual" -> DoAssertIsEqual(p, ins, st)
          [] ins.op = "AssertIsLessOrEqual" -> DoAssertIsLessOrEqual(p, ins, st)
          [] ins.op = "SlotOfStructFieldInMapping" -> DoSlotOfStructFieldInMapping(p, ins, st)
          [] ins.op = "ToUint248" -> DoToUint248(p, ins, st)
          [] ins.op = "Map" -> DoMap(ins, st)
          [] ins.op = "Sum" -> DoSum(ins, st)
          [] ins.op = "Count" -> DoCount(ins, st)
          [] ins.op = "Add" -> DoAdd(p, ins, st)
          [] ins.op = "Sub" -> DoSub(p, ins, st)
          [] ins.op \in {"OutputAddress", "OutputUint"} -> DoOutput(p, ins, st)
          [] ins.op = "Return" -> DoReturn(st)

\* a whole invocation, from any state to its terminal state
RECURSIVE RunFrom(_, _, _, _)
RunFrom(c, p, in, st) ==
    IF st.phase \in Terminal THEN st ELSE RunFrom(c, p, in, Exec(c, p, in, st))

Run(c, p, in) == RunFrom(c, p, in, InitialState)

-----------------------------------------------------------------------------
(* The state machine *)

InvocationInit ==
    /\ circuit \in Circuits
    /\ params \in Params(circuit)
    /\ input \in Inputs(circuit, params)
    /\ pc = InitialState.pc
    /\ phase = InitialState.phase
    /\ env = InitialState.env
    /\ output = InitialState.output
    /\ buffer = InitialState.buffer
    /\ err = InitialState.err

\* no second invocation
NoPeer == [circuit |-> "none"]

\* no command-line program is running
NoProgram ==
    [name |-> "none", step |-> "Exited", exit |-> 0, rpcURL |-> "",
     sepoliaRPC |-> "", storage |-> << >>, errMsg |-> << >>, printed |-> << >>]

Init ==
    /\ InvocationInit
    /\ pkg = PackageVars
    /\ peer = NoPeer
    /\ prog = NoProgram

\* the statement about to run
Cur == Define(circuit)[pc]

At(op) == phase \notin Terminal /\ Cur.op = op

Commit(st) ==
    /\ pc' = st.pc
    /\ phase' = st.phase
    /\ env' = st.env
    /\ output' = st.output
    /\ buffer' = st.buffer
    /\ err' = st.err
    /\ UNCHANGED <<circuit, params, input, pkg, peer, prog>>

NewDataStream == At("NewDataStream") /\ Commit(DoNewDataStream(circuit, input, Cur, State))

GetUnderlying == At("GetUnderlying") /\ Commit(DoGetUnderlying(Cur, State))

AssertEach == At("AssertEach") /\ Commit(DoAssertEach(params, Cur, State))

AssertIsEqual == At("AssertIsEqual") /\ Commit(DoAssertIsEqual(params, Cur, State))

AssertIsLessOrEqual == At("AssertIsLessOrEqual") /\ Commit(DoAssertIsLessOrEqual(params, Cur, State))

SlotOfStructField == At("SlotOfStructFieldInMapping") /\ Commit(DoSlotOfStructFieldInMapping(params, Cur, State))

ToUint248Step == At("ToUint248") /\ Commit(DoToUint248(params, Cur, State))

MapStep == At("Map") /\ Commit(DoMap(Cur, State))

SumStep == At("Sum") /\ Commit(DoSum(Cur, State))

CountStep == At("Count") /\ Commit(DoCount(Cur, State))

Add == At("Add") /\ Commit(DoAdd(params, Cur, State))

Sub == At("Sub") /\ Commit(DoSub(params, Cur, State))

OutputAddress == At("OutputAddress") /\ Commit(DoOutput(params, Cur, State))

OutputUint == At("OutputUint") /\ Commit(DoOutput(params, Cur, State))

Return == At("Return") /\ Commit(DoReturn(State))

Next ==
    \/ NewDataStream
    \/ GetUnderlying
    \/ AssertEach
    \/ AssertIsEqual
    \/ AssertIsLessOrEqual
    \/ SlotOfStructField
    \/ ToUint248Step
    \/ MapStep
    \/ SumStep
    \/ CountStep
    \/ Add
    \/ Sub
    \/ OutputAddress
    \/ OutputUint
    \/ Return

Spec == Init /\ [][Next]_vars

\* Define is straight-line code run to its return: a statement that can run
\* does run (every statement moves the position or ends the invocation)
FairSpec == Spec /\ WF_<<pc, phase>>(Next)

-----------------------------------------------------------------------------
(* Two invocations evaluated at the same time: the steps of the second     *)
(* (peer) interleave with the steps of the first in every order.           *)

ParCircuits == {"compound", "tokenHolder", "multichain", "twap"}

ParParams(c) ==
    {p \in Params(c) :
        \A k \in DOMAIN p : p[k] = IF k = "MaxPrice" THEN MaxU248 ELSE 1}

\* a batch that goes through, a batch with a record off the pattern, and a
\* batch that fails later or earlier (threshold, capacity)
ParInputs(c, p) ==
    LET bn == CHOOSE b \in BlockNums : TRUE
        cap == IF Allocate(c)[1] > 0 THEN Allocate(c)[1] ELSE Allocate(c)[2]
        good == GoodReceipt(c, p, BaseValues(c, p), bn)
        slot(i, v) ==
            StorageSlot(bn, DeclaredSlots(c, p)[i].Contract, DeclaredSlots(c, p)[i].Slot, v)
    IN  IF Allocate(c)[1] > 0
        THEN { DataInput([i \in 1..cap |-> good], << >>),
               DataInput([i \in 1..cap |->
                            IF i = cap THEN Deviate(good, 1, "EventID") ELSE good], << >>),
               DataInput([i \in 1..(cap - 1) |-> good], << >>) }
        ELSE { DataInput(<< >>, [i \in 1..cap |-> slot(i, TokenHolder_minimumBalance)]),
               DataInput(<< >>, [i \in 1..cap |-> slot(i, 1)]),
               DataInput(<< >>, [i \in 1..cap |->
                            IF i = cap THEN [slot(i, 1) EXCEPT !.Contract = OtherAddr(@)]
                                       ELSE slot(i, 1)]) }

ParInvocations ==
    UNION {UNION {{[circuit |-> c, params |-> p, input |-> in] : in \in ParInputs(c, p)} :
                    p \in ParParams(c)} : c \in ParCircuits}

ParInit ==
    /\ \E v \in ParInvocations :
          /\ circuit = v.circuit
          /\ params = v.params
          /\ input = v.input
    /\ pc = InitialState.pc
    /\ phase = InitialState.phase
    /\ env = InitialState.env
    /\ output = InitialState.output
    /\ buffer = InitialState.buffer
    /\ err = InitialState.err
    /\ pkg = PackageVars
    /\ prog = NoProgram
    /\ peer \in {[circuit |-> v.circuit, params |-> v.params, input |-> v.input,
                   st |-> InitialState] : v \in ParInvocations}

\* the second invocation appends to the output of the first
PeerStepSharedOutput ==
    /\ peer.circuit # "none"
    /\ peer.st.phase \notin Terminal
    /\ peer' = [peer EXCEPT !.st =
                    Exec(peer.circuit, peer.params, peer.input,
                         [peer.st EXCEPT !.output = output, !.buffer = buffer])]
    /\ UNCHANGED <<circuit, params, input, pc, phase, env, output, buffer, err, pkg,
                   prog>>

\* one step of the second invocation
PeerStep ==
    /\ peer.circuit # "none"
    /\ peer.st.phase \notin Terminal
    /\ peer' = [peer EXCEPT !.st = Exec(peer.circuit, peer.params, peer.input, peer.st)]
    /\ UNCHANGED <<circuit, params, input, pc, phase, env, output, buffer, err, pkg,
                   prog>>

ParNext == Next \/ PeerStep

ParSpec == ParInit /\ [][ParNext]_vars

-----------------------------------------------------------------------------
(* The real-query program: it adds the balance slot of a known USDC holder *)
(* to a BrevisApp, creates the tokenHolder circuit and asks the gateway to *)
(* build the circuit input; a failure is analysed by keyword. A string is  *)
(* the sequence of its bytes.                                              *)

TestHolderAddress == 1

USDCContract == 1

TestBlockNumber == 7

\* common.Hash{}: 32 zero bytes, the key of plain slot 0
ZeroHash == PlainSlot(0)

calculateBalanceSlot(addr, mappingSlot) == ZeroHash

toLower(s) ==
    [i \in 1..Len(s) |-> IF s[i] >= 65 /\ s[i] <= 90 THEN s[i] + 32 ELSE s[i]]

contains(s, substr) ==
    LET ls == toLower(s)
        lsub == toLower(substr)
    IN  \E i \in 0..(Len(ls) - Len(lsub)) : SubSeq(ls, i + 1, i + Len(lsub)) = lsub

containsAny(s, substrs) == \E k \in 1..Len(substrs) : contains(s, substrs[k])

\* "auth", "unauthorized", "forbidden", "permission"
AuthKeywords ==
    << <<97, 117, 116, 104>>,
       <<117, 110, 97, 117, 116, 104, 111, 114, 105, 122, 101, 100>>,
       <<102, 111, 114, 98, 105, 100, 100, 101, 110>>,
       <<112, 101, 114, 109, 105, 115, 115, 105, 111, 110>> >>

\* "unavailable", "connection", "network"
NetworkKeywords ==
    << <<117, 110, 97, 118, 97, 105, 108, 97, 98, 108, 101>>,
       <<99, 111, 110, 110, 101, 99, 116, 105, 111, 110>>,
       <<110, 101, 116, 119, 111, 114, 107>> >>

\* "rate limit", "quota", "throttle"
RateLimitKeywords ==
    << <<114, 97, 116, 101, 32, 108, 105, 109, 105, 116>>,
       <<113, 117, 111, 116, 97>>,
       <<116, 104, 114, 111, 116, 116, 108, 101>> >>

\* "rpc", "block", "chain"
RPCKeywords ==
    << <<114, 112, 99>>,
       <<98, 108, 111, 99, 107>>,
       <<99, 104, 97, 105, 110>> >>

analyzeErrorNetworkFirst(errMsg) ==
    << "Error Analysis:",
       IF containsAny(errMsg, NetworkKeywords) THEN "NETWORK/CONNECTION ERROR"
       ELSE IF containsAny(errMsg, AuthKeywords) THEN "AUTHENTICATION ERROR DETECTED"
       ELSE IF containsAny(errMsg, RateLimitKeywords) THEN "RATE LIMIT ERROR"
       ELSE IF containsAny(errMsg, RPCKeywords) THEN "RPC/BLOCKCHAIN ERROR"
       ELSE "UNKNOWN ERROR",
       "TIP: The error message itself is valuable!" >>

\* the lines analyzeError prints (headlines only)
analyzeError(errMsg) ==
    << "Error Analysis:",
       IF containsAny(errMsg, AuthKeywords) THEN "AUTHENTICATION ERROR DETECTED"
       ELSE IF containsAny(errMsg, NetworkKeywords) THEN "NETWORK/CONNECTION ERROR"
       ELSE IF containsAny(errMsg, RateLimitKeywords) THEN "RATE LIMIT ERROR"
       ELSE IF containsAny(errMsg, RPCKeywords) THEN "RPC/BLOCKCHAIN ERROR"
       ELSE "UNKNOWN ERROR",
       "TIP: The error message itself is valuable!" >>

\* the pieces the error messages of the gateway are put together from:
\* keywords in lower, upper and mixed case, parts of keywords, and text
\* without a keyword
Fragments ==
    { <<97, 117, 116, 104>>,                                  \* "auth"
      <<65, 85, 84, 72>>,                                     \* "AUTH"
      <<85, 110, 97, 117, 116, 104, 111, 114, 105, 122, 101, 100>>,\* "Unauthorized"
      <<102, 111, 114, 98, 105, 100, 100, 101, 110>>,         \* "forbidden"
      <<112, 101, 114, 109, 105, 115, 115, 105, 111, 110>>,   \* "permission"
      <<117, 110, 97, 118, 97, 105, 108, 97, 98, 108, 101>>,  \* "unavailable"
      <<67, 111, 110, 110, 101, 99, 116, 105, 111, 110>>,     \* "Connection"
      <<78, 69, 84, 87, 79, 82, 75>>,                         \* "NETWORK"
      <<114, 97, 116, 101, 32, 108, 105, 109, 105, 116>>,     \* "rate limit"
      <<82, 97, 116, 101, 32, 76, 105, 109, 105, 116>>,       \* "Rate Limit"
      <<113, 117, 111, 116, 97>>,                             \* "quota"
      <<116, 104, 114, 111, 116, 116, 108, 101>>,             \* "throttle"
      <<82, 80, 67>>,                                         \* "RPC"
      <<98, 108, 111, 99, 107>>,                              \* "block"
      <<99, 104, 97, 105, 110>>,                              \* "chain"
      <<97, 117, 116>>,                                       \* "aut"
      <<114, 97, 116, 101>>,                                  \* "rate"
      <<32, 108, 105, 109, 105, 116>>,                        \* " limit"
      <<104>>,                                                \* "h"
      <<64, 91, 96, 123>>,                                    \* "@[`{"
      <<58, 32>> }                                            \* ": "

MaxFragments == 2

RECURSIVE Concat(_)
Concat(fs) == IF fs = << >> THEN << >> ELSE Head(fs) \o Concat(Tail(fs))

\* err.Error() of a failed gateway query
Messages ==
    UNION {{Concat(fs) : fs \in [1..n -> Fragments]} : n \in 0..MaxFragments}

\* no invocation has been set up: the circuit struct has its zero value
NoInvocation ==
    /\ input = DataInput(<< >>, << >>)
    /\ pc = InitialState.pc
    /\ phase = InitialState.phase
    /\ env = InitialState.env
    /\ output = InitialState.output
    /\ buffer = InitialState.buffer
    /\ err = InitialState.err
    /\ pkg = PackageVars
    /\ peer = NoPeer

QueryInit ==
    /\ circuit = "tokenHolder"
    /\ params = [HolderAddr |-> 0]
    /\ NoInvocation
    /\ prog \in {[NoProgram EXCEPT !.name = "realQuery", !.step = "CheckRPC",
                                   !.rpcURL = u] : u \in {"", "url"}}

Println(line) == [prog EXCEPT !.printed = Append(@, line)]

Exit(pr, code) == [pr EXCEPT !.step = "Exited", !.exit = code]

Goto(pr, step) == [pr EXCEPT !.step = step]

Running(name, step) == prog.name = name /\ prog.step = step

Invocation == <<circuit, params, input, pc, phase, env, output, buffer, err, pkg, peer>>

QueryCheckRPC ==
    /\ Running("realQuery", "CheckRPC")
    /\ prog' = IF prog.rpcURL = ""
               THEN Exit(Println("ETH_RPC_URL not set"), 1)
               ELSE Goto(prog, "CreateApp")
    /\ UNCHANGED Invocation

QueryCreateApp ==
    /\ Running("realQuery", "CreateApp")
    /\ \E ok \in BOOLEAN :
          prog' = IF ok
                  THEN Goto(Println("BrevisApp created successfully"), "AddStorage")
                  ELSE Exit(Println("Failed to create BrevisApp"), 1)
    /\ UNCHANGED Invocation

QueryAddStorage ==
    /\ Running("realQuery", "AddStorage")
    /\ LET holderAddr == TestHolderAddress
           storageSlot == calculateBalanceSlot(holderAddr, 9)
           data == [BlockNum |-> TestBlockNumber, Address |-> USDCContract,
                    Slot |-> storageSlot]
       IN  prog' = [Goto(Println("Storage data added"), "CreateCircuit")
                       EXCEPT !.storage = Append(@, data)]
    /\ UNCHANGED Invocation

QueryCreateCircuit ==
    /\ Running("realQuery", "CreateCircuit")
    /\ params' = [HolderAddr |-> TestHolderAddress]
    /\ prog' = Goto(Println("Circuit instance created"), "BuildCircuitInput")
    /\ UNCHANGED <<circuit, input, pc, phase, env, output, buffer, err, pkg, peer>>

\* the gateway refuses with some error, or the SDK fetches the value of
\* every slot the program added and hands the records to the circuit
QueryBuildCircuitInput ==
    /\ Running("realQuery", "BuildCircuitInput")
    /\ \/ /\ \E msg \in Messages :
                prog' = [Goto(Println("GATEWAY QUERY FAILED"), "AnalyzeError")
                            EXCEPT !.errMsg = msg]
          /\ UNCHANGED input
       \/ /\ \E v \in SlotValues("tokenHolder") :
                input' = DataInput(<< >>,
                            [i \in 1..Len(prog.storage) |->
                                StorageSlot(prog.storage[i].BlockNum,
                                            prog.storage[i].Address,
                                            prog.storage[i].Slot, v)])
          /\ prog' = Exit(Println("GATEWAY QUERY SUCCEEDED!"), 0)
    /\ UNCHANGED <<circuit, params, pc, phase, env, output, buffer, err, pkg, peer>>

QueryAnalyzeError ==
    /\ Running("realQuery", "AnalyzeError")
    /\ prog' = Exit([prog EXCEPT !.printed = @ \o analyzeError(prog.errMsg)], 1)
    /\ UNCHANGED Invocation

\* the input the program built is what Define is evaluated on
QueryBuilt == prog.name = "realQuery" /\ prog.step = "Exited" /\ prog.exit = 0

QueryNewDataStream == QueryBuilt /\ NewDataStream

QueryGetUnderlying == QueryBuilt /\ GetUnderlying

QuerySlotOfStructField == QueryBuilt /\ SlotOfStructField

QueryAssertIsEqual == QueryBuilt /\ AssertIsEqual

QueryNext ==
    \/ QueryCheckRPC
    \/ QueryCreateApp
    \/ QueryAddStorage
    \/ QueryCreateCircuit
    \/ QueryBuildCircuitInput
    \/ QueryAnalyzeError
    \/ QueryNewDataStream
    \/ QueryGetUnderlying
    \/ QuerySlotOfStructField
    \/ QueryAssertIsEqual

QuerySpec == QueryInit /\ [][QueryNext]_vars

-----------------------------------------------------------------------------
(* The gateway setup program: it tries the RPC endpoint, creates a client  *)
(* for each gateway endpoint, creates BrevisApps and prints a summary.     *)

DefaultGateway == "appsdkv3.brevis.network:443"

TestnetGateway == "testnet-api.brevis.network:443"

\* what the RPC endpoint does: Dial fails, BlockNumber fails, CodeAt fails,
\* the contract has no code, the contract has code
RPCOutcomes == {"DialFails", "BlockNumberFails", "CodeAtFails", "NoCode", "Code"}

\* the lines testRPCConnection prints
testRPCConnection(outcome) ==
    <<"RPC URL">> \o
    CASE outcome = "DialFails" -> <<"Failed to connect">>
      [] outcome = "BlockNumberFails" -> <<"Failed to get block number">>
      [] outcome = "CodeAtFails" ->
            <<"Connected successfully", "Warning: Cannot read contract code">>
      [] outcome = "NoCode" -> <<"Connected successfully">>
      [] outcome = "Code" ->
            <<"Connected successfully", "Contract data accessible (USDC verified)">>

\* the lines testGatewayConnection prints; created: sdk.NewGatewayClient
\* returned no error
testGatewayConnection(gatewayURL, created) ==
    IF created
    THEN <<"Gateway client created successfully",
           "Cannot test query submission without:">>
    ELSE <<"Failed to create gateway client">>

\* the lines testBrevisAppCreation prints
testBrevisAppCreation(sepoliaRPC, ok1, ok2, ok3) ==
    << IF ok1 THEN "BrevisApp created (default gateway)" ELSE "Failed" >> \o
    << IF ok2 THEN "BrevisApp created (testnet gateway override)" ELSE "Failed" >> \o
    << IF sepoliaRPC = "" THEN "Skipped (SEPOLIA_RPC_URL not set)"
       ELSE IF ok3 THEN "BrevisApp created for Sepolia" ELSE "Failed" >>

\* the lines printSummary prints
printSummary(rpcURL) ==
    <<"COMPLETED TESTS">> \o
    << IF rpcURL # "" THEN "RPC Endpoint: Available" ELSE "RPC Endpoint: NOT SET" >> \o
    <<"Gateway Clients: Can be created", "SDK Installation: Working",
      "WHAT'S STILL NEEDED:">> \o
    (IF rpcURL = "" THEN <<"4. Set up RPC endpoint:">> ELSE << >>) \o
    <<"TIP: The fact that gateway clients can be created">>

Printf(pr, lines) == [pr EXCEPT !.printed = @ \o lines]

SetupInit ==
    /\ circuit = "none"
    /\ params = [HolderAddr |-> 0]
    /\ NoInvocation
    /\ prog \in {[NoProgram EXCEPT !.name = "gatewaySetup", !.step = "CheckRPC",
                                   !.rpcURL = u, !.sepoliaRPC = s] :
                    u \in {"", "url"}, s \in {"", "url"}}

SetupCheckRPC ==
    /\ Running("gatewaySetup", "CheckRPC")
    /\ \E outcome \in RPCOutcomes :
          prog' = Goto(Printf(prog,
                          IF prog.rpcURL = ""
                          THEN <<"ETH_RPC_URL environment variable not set">>
                          ELSE testRPCConnection(outcome)),
                       "TestGateways")
    /\ UNCHANGED Invocation

SetupTestGateways ==
    /\ Running("gatewaySetup", "TestGateways")
    /\ \E created1, created2 \in BOOLEAN :
          prog' = Goto(Printf(prog,
                          <<"[Testing Default Production Gateway]">> \o
                          testGatewayConnection(DefaultGateway, created1) \o
                          <<"[Testing Testnet Gateway]">> \o
                          testGatewayConnection(TestnetGateway, created2)),
                       "TestBrevisApp")
    /\ UNCHANGED Invocation

SetupTestBrevisApp ==
    /\ Running("gatewaySetup", "TestBrevisApp")
    /\ \E ok1, ok2, ok3 \in BOOLEAN :
          prog' = Goto(Printf(prog,
                          IF prog.rpcURL # ""
                          THEN testBrevisAppCreation(prog.sepoliaRPC, ok1, ok2, ok3)
                          ELSE <<"Skipped (no RPC URL)">>),
                       "PrintSummary")
    /\ UNCHANGED Invocation

SetupPrintSummary ==
    /\ Running("gatewaySetup", "PrintSummary")
    /\ prog' = Exit(Printf(prog, printSummary(prog.rpcURL)), 0)
    /\ UNCHANGED Invocation

SetupNext ==
    \/ SetupCheckRPC
    \/ SetupTestGateways
    \/ SetupTestBrevisApp
    \/ SetupPrintSummary

SetupSpec == SetupInit /\ [][SetupNext]_vars

-----------------------------------------------------------------------------
(* Vocabulary of the properties *)

\* the evidence the circuit consumes
Batch == IF Allocate(circuit)[1] > 0 THEN input.Receipts ELSE input.StorageSlots

Capacity == IF Allocate(circuit)[1] > 0 THEN Allocate(circuit)[1] ELSE Allocate(circuit)[2]

Max(S) == CHOOSE x \in S : \A y \in S : y <= x

StmtsOf(c, ops) == {i \in DOMAIN Define(c) : Define(c)[i].op \in ops}

\* the statements that check the records against the pattern
ValidationStmts(c) == {i \in DOMAIN Define(c) : Define(c)[i].err = "PatternMismatch"}

\* every statement that can fail an assertion
AssertionStmts(c) == {i \in DOMAIN Define(c) : Define(c)[i].err # "None"}

ThresholdStmts(c) == StmtsOf(c, {"AssertIsLessOrEqual"})

ValidationPassed == err = "None" /\ pc > Max(ValidationStmts(circuit))

AllAssertionsPassed == err = "None" /\ pc > Max(AssertionStmts(circuit))

\* the threshold assertions have been decided: all passed, or one failed
ThresholdsDecided ==
    \/ err = "None" /\ pc > Max(ThresholdStmts(circuit))
    \/ err = "ThresholdUnmet"

\* a log field carries the declared contract, event, topic flag and index
ProvenanceMatches(f, d) ==
    /\ f.Contract = d.Contract
    /\ f.EventID = d.EventID
    /\ f.IsTopic = d.IsTopic
    /\ f.Index = d.Index

\* record number i of the batch matches the pattern declared for slot i
RecordMatches(c, p, r, i) ==
    IF Allocate(c)[1] > 0
    THEN /\ \A k \in 1..Len(DeclaredFields(c, p)) :
                ProvenanceMatches(r.Fields[k], DeclaredFields(c, p)[k])
         /\ DeclaredValuesOk(c, p, r)
    ELSE /\ r.Contract = DeclaredSlots(c, p)[i].Contract
         /\ r.Slot = DeclaredSlots(c, p)[i].Slot

AllRecordsMatch ==
    \A i \in 1..Len(Batch) : RecordMatches(circuit, params, Batch[i], i)

RECURSIVE ExactSum(_)
ExactSum(s) == IF s = << >> THEN 0 ELSE Head(s) + ExactSum(Tail(s))

\* the designated value field of every record of the batch, unreduced
ValuesOf(b, fn, i) == [k \in 1..Len(b) |-> MapFn(fn, i, b[k])]

\* the exact sum of value field i of the receipts of the batch
BatchSum(i) == ExactSum(ValuesOf(Batch, "Fields", i))

\* the exact sum of the values of the storage slots of the batch
SlotSum == ExactSum(ValuesOf(Batch, "Slot", 0))

\* the aggregates of the circuit, computed exactly from the whole batch
ExactTotals ==
    CASE circuit \in {"compound", "sushiswap", "polygonBridge", "curve", "uniswapV3",
                       "balancer"} ->
            <<BatchSum(0)>>
      [] circuit = "uniswapV2LP" -> <<BatchSum(1), BatchSum(2)>>
      [] circuit \in {"bidirectional", "sushiBidirectional"} ->
            <<BatchSum(0), BatchSum(1), BatchSum(0) + BatchSum(1)>>
      [] circuit \in {"tokenHolder", "multichain", "twap", "twapV3"} -> <<SlotSum>>
      [] OTHER -> << >>

\* the one-sided threshold assertions: <<threshold, observed aggregate>>
ThresholdPairs ==
    CASE circuit = "compound" -> {<<params.MinSupply, BatchSum(0)>>}
      [] circuit = "uniswapV2LP" ->
            {<<params.MinLiquidityV0, BatchSum(1)>>, <<params.MinLiquidityV1, BatchSum(2)>>}
      [] circuit \in {"sushiswap", "curve", "uniswapV3", "balancer"} ->
            {<<params.MinVolume, BatchSum(0)>>}
      [] circuit = "polygonBridge" -> {<<params.MinBridgeAmount, BatchSum(0)>>}
      [] circuit \in {"bidirectional", "sushiBidirectional"} ->
            {<<params.MinVolumeIn, BatchSum(0)>>, <<params.MinVolumeOut, BatchSum(1)>>}
      [] circuit = "layerzero" -> {<<params.MinMessageCount, Len(Batch)>>}
      [] circuit = "tokenHolder" -> {<<TokenHolder_minimumBalance, SlotSum>>}
      [] circuit = "multichain" -> {<<params.MinTotalBalance, SlotSum>>}

OneSidedCircuits ==
    {"compound", "sushiswap", "polygonBridge", "curve", "bidirectional",
     "sushiBidirectional", "uniswapV3", "balancer", "uniswapV2LP",
     "layerzero", "tokenHolder", "multichain"}

\* the circuits that validate every record with one function (sdk.AssertEach)
UniformCircuits ==
    {"compound", "sushiswap", "polygonBridge", "curve", "bidirectional",
     "sushiBidirectional", "uniswapV3", "balancer", "uniswapV2LP",
     "layerzero", "twap", "twapV3"}

\* the circuits that emit sdk.Count as their last, 64-bit output
CountingCircuits ==
    {"compound", "sushiswap", "polygonBridge", "curve", "bidirectional",
     "sushiBidirectional", "uniswapV3", "balancer", "uniswapV2LP"}

BatchPermutations(n) == {f \in [1..n -> 1..n] : \A i, j \in 1..n : f[i] = f[j] => i = j}

Permute(b, f) == [i \in 1..Len(b) |-> b[f[i]]]

PermuteInput(in, f) ==
    IF in.Receipts # << >> THEN DataInput(Permute(in.Receipts, f), << >>)
                           ELSE DataInput(<< >>, Permute(in.StorageSlots, f))

\* the sums and counts held by the locals of a state
Aggregates(c, e) ==
    [i \in StmtsOf(c, {"Sum", "Count", "Add"}) |-> e[Define(c)[i].dst]]

-----------------------------------------------------------------------------
(* C1: batch validation is exact: it succeeds if and only if every record  *)
(* carries the declared contract, selector (event id, slot key), position  *)
(* and is_topic; one mismatched field in one record fails the invocation.  *)
(* Violated: uniswapv2twap accepts a slot of the pair whatever its key,    *)
(* nftOwnership accepts a log of the contract whatever its event.          *)
C1_ValidationExact ==
    /\ ValidationPassed => AllRecordsMatch
    /\ err = "PatternMismatch" => ~AllRecordsMatch

-----------------------------------------------------------------------------
(* C2: output values are emitted only after validation and every           *)
(* assertion succeeded; a failed invocation has emitted no output.         *)
C2_NoOutputOnFailure ==
    /\ output # << >> => AllAssertionsPassed
    /\ phase = "Failed" => output = << >>

\* a threshold was unmet after the sums were computed, and nothing was emitted
C2_Witness ==
    /\ circuit = "compound"
    /\ err = "ThresholdUnmet"
    /\ env["totalSupply"] > 0
    /\ output = << >>

-----------------------------------------------------------------------------
(* C3 *)

Rank(ph) ==
    CASE ph = "Uninitialized" -> 0
      [] ph = "BatchLoaded" -> 1
      [] ph = "Validated" -> 2
      [] ph = "Aggregated" -> 3
      [] ph = "Asserted" -> 4
      [] ph = "OutputEncoded" -> 5
      [] ph = "Done" -> 6
      [] ph = "Failed" -> 7

CanFail(ins) ==
    \/ ins.err # "None"
    \/ ins.op \in {"NewDataStream", "Sum", "Add", "Sub", "OutputAddress", "OutputUint"}

-----------------------------------------------------------------------------
(* C4: no silent overflow: a Sum or an Add whose exact result exceeds the  *)
(* numeric width fails the invocation with Overflow; every sum a later     *)
(* step reads is the exact arithmetic sum, never a wrapped one, and no     *)
(* invocation whose addition overflows reaches Done.                       *)

\* the exact result of the addition statement ins
ExactOf(ins) ==
    IF ins.op = "Sum" THEN ExactSum(env[ins.src])
    ELSE Eval(ins.a, params, env) + Eval(ins.b, params, env)

-----------------------------------------------------------------------------
(* C5: one-sided threshold assertion: the invocation passes its threshold  *)
(* assertions if and only if threshold <= observed for each of them        *)
(* (equality passes); an observed aggregate below the threshold fails the  *)
(* invocation with ThresholdUnmet.                                         *)
C5_OneSidedThreshold ==
    (circuit \in OneSidedCircuits /\ ThresholdsDecided) =>
        ((err = "ThresholdUnmet") <=> (\E t \in ThresholdPairs : t[1] > t[2]))

\* threshold and observed sum are equal and the invocation went through
C5_Witness ==
    /\ circuit = "compound"
    /\ phase = "Done"
    /\ params.MinSupply = BatchSum(0)
    /\ params.MinSupply > 0

-----------------------------------------------------------------------------
(* C6: two-sided threshold assertion of the price-range circuit: it passes *)
(* if and only if MinPrice <= observed and observed <= MaxPrice; with      *)
(* MinPrice > MaxPrice it fails for every observed value.                  *)
C6_TwoSidedThreshold ==
    /\ (circuit \in TWAPCircuits /\ ThresholdsDecided) =>
          ((err = "ThresholdUnmet") <=>
              ~(params.MinPrice <= SlotSum /\ SlotSum <= params.MaxPrice))
    /\ (circuit \in TWAPCircuits /\ params.MinPrice > params.MaxPrice) => phase # "Done"

\* the lower bound holds, the range is empty, the invocation failed
C6_Witness ==
    /\ circuit = "twap"
    /\ err = "ThresholdUnmet"
    /\ params.MinPrice > params.MaxPrice
    /\ params.MinPrice <= SlotSum

-----------------------------------------------------------------------------
-----------------------------------------------------------------------------
-----------------------------------------------------------------------------
(* C9: no silent exclusion: in every successful invocation the emitted sum *)
(* is the exact arithmetic sum of the designated value field over every    *)
(* record of the batch.                                                    *)
C9_SumOverWholeBatch ==
    phase = "Done" =>
        CASE circuit \in {"compound", "sushiswap", "polygonBridge", "curve",
                           "uniswapV3", "balancer"} ->
                output[2] = [bits |-> Bits248, val |-> BatchSum(0)]
          [] circuit = "uniswapV2LP" ->
                /\ output[2] = [bits |-> Bits248, val |-> BatchSum(1)]
                /\ output[3] = [bits |-> Bits248, val |-> BatchSum(2)]
          [] circuit \in {"bidirectional", "sushiBidirectional"} ->
                /\ output[2] = [bits |-> Bits248, val |-> BatchSum(0)]
                /\ output[3] = [bits |-> Bits248, val |-> BatchSum(1)]
          [] circuit \in TWAPCircuits ->
                output[2] = [bits |-> Bits248, val |-> SlotSum]
          [] OTHER -> TRUE

\* both bridge deposits contributed to the emitted sum
C9_Witness ==
    /\ circuit = "polygonBridge"
    /\ phase = "Done"
    /\ \A i \in 1..Len(Batch) : Field(Batch[i], 0).Value = 1
    /\ output[2].val = Capacity

-----------------------------------------------------------------------------
(* C10: sum order-independence: a batch validated with one pattern for all *)
(* records ends every permutation of its records in the same way: it       *)
(* validates again and yields the same sums, the same count and the same   *)
(* output (or fails with the same error).                                  *)
C10_OrderIndependent ==
    (circuit \in UniformCircuits /\ phase \in Terminal /\ Len(Batch) = Capacity) =>
        \A f \in BatchPermutations(Len(Batch)) :
            LET r == Run(circuit, params, PermuteInput(input, f))
            IN  /\ r.phase = phase
                /\ r.err = err
                /\ r.output = output
                /\ Aggregates(circuit, r.env) = Aggregates(circuit, env)

\* a validated batch of two different swaps was summed
C10_Witness ==
    /\ circuit = "curve"
    /\ phase = "Done"
    /\ Field(Batch[1], 0).Value # Field(Batch[2], 0).Value

-----------------------------------------------------------------------------
(* C11: OR combinator of the bidirectional circuits: a batch whose records  *)
(* all carry the declared contract, event, topic flag and index passes     *)
(* validation if and only if in every record the sender field or the to    *)
(* field equals UserAddr; a record whose to field alone equals the user is *)
(* accepted, a record where neither equals the user fails the batch.       *)

BidirectionalCircuits == {"bidirectional", "sushiBidirectional"}

\* every tracked field of the record carries the declared provenance
ProvenanceOk(c, p, r) ==
    \A k \in 1..Len(DeclaredFields(c, p)) :
        ProvenanceMatches(r.Fields[k], DeclaredFields(c, p)[k])

SenderIsUser(r) == Field(r, 2).Value = params.UserAddr

RecipientIsUser(r) == Field(r, 3).Value = params.UserAddr

\* the validation of the batch has been decided
ValidationDecided == ValidationPassed \/ err = "PatternMismatch"

C11_OrCombinator ==
    ( /\ circuit \in BidirectionalCircuits
      /\ ValidationDecided
      /\ \A i \in 1..Len(Batch) : ProvenanceOk(circuit, params, Batch[i]) ) =>
        ( ValidationPassed <=>
            \A i \in 1..Len(Batch) : SenderIsUser(Batch[i]) \/ RecipientIsUser(Batch[i]) )

\* a swap sent by somebody else to the user went through validation
C11_Witness ==
    /\ circuit = "sushiBidirectional"
    /\ phase = "Done"
    /\ \E i \in 1..Len(Batch) : ~SenderIsUser(Batch[i]) /\ RecipientIsUser(Batch[i])

-----------------------------------------------------------------------------
(* C12: output round trip with width-sized slots: the buffer holds, for    *)
(* every value emitted so far and in declaration order, one big-endian     *)
(* slot of the size of the value's declared width (64, 160 or 248 bits),   *)
(* and reading the buffer at these fixed offsets gives back exactly the    *)
(* values that were emitted.                                               *)

\* the widths the circuit declares for its outputs, in declaration order
DeclaredWidths(c) ==
    LET outs == StmtsOf(c, {"OutputAddress", "OutputUint"})
        first == Max(DOMAIN Define(c)) - Cardinality(outs)
    IN  [k \in 1..Cardinality(outs) |-> Define(c)[first + k - 1].n]

\* the layout of the values emitted so far
EmittedWidths == SubSeq(DeclaredWidths(circuit), 1, Len(output))

-----------------------------------------------------------------------------
(* C13: consumer decoding as the READMEs document it: the i-th emitted     *)
(* value is read from bytes [32*i, 32*(i+1)) of circuitOutput; for         *)
(* tokenHolder (holder, balance, block number) and for nftOwnership        *)
(* (owner, contract, tokenId, block number) reading at these offsets       *)
(* gives the values the circuit emitted.                                   *)
(* Violated: the encoder packs the values in slots of their own width, so  *)
(* the words of the consumers straddle the slots or lie beyond the buffer. *)

\* the values a successful invocation emitted
Emitted == [k \in 1..Len(output) |-> output[k].val]

C13_ConsumerDecoding ==
    /\ (circuit = "tokenHolder" /\ phase = "Done") =>
          TokenHolderVerifier(buffer) = Emitted
    /\ (circuit = "nftOwnership" /\ phase = "Done") =>
          NFTOwnershipVerifier(buffer) = Emitted

-----------------------------------------------------------------------------
(* C14 *)

\* the value an output operand has by the inputs of the invocation alone: a
\* parameter, the block range, a count, the block number of the record
InputValue(o) ==
    CASE o.k = "param" -> params[o.s]
      [] o.k = "var" /\ o.s = "blockRange" -> params.EndBlock - params.StartBlock
      [] o.k = "var" -> Len(Batch)
      [] OTHER -> Batch[1].BlockNum

\* the outputs the circuit declares 64 bits wide
Outputs64(c) == {i \in StmtsOf(c, {"OutputUint"}) : Define(c)[i].n = Bits64}

\* the invocation breaks an invariant that does not involve a 64-bit output
FailsElsewhere ==
    \/ Len(Batch) # Capacity
    \/ err \in {"CapacityMismatch", "PatternMismatch"}
    \/ circuit \in TWAPCircuits
          /\ ~(params.MinPrice <= SlotSum /\ SlotSum <= params.MaxPrice)
    \/ \E k \in DOMAIN ExactTotals : ExactTotals[k] > MaxU248

-----------------------------------------------------------------------------
(* C15: distinguishable errors: an invocation has failed if and only if it *)
(* reports one of PatternMismatch, CapacityMismatch, Overflow and          *)
(* ThresholdUnmet, and the kind reported is that of the invariant that     *)
(* broke at the failing step: the batch size differs from the capacity, a  *)
(* record is off the declared pattern, an exact result leaves the numeric  *)
(* width, a threshold exceeds the observed aggregate.                      *)

ErrorKinds == {"PatternMismatch", "CapacityMismatch", "Overflow", "ThresholdUnmet"}

\* the bound and the aggregate of the threshold assertions, from the inputs
ThresholdBroken ==
    IF circuit \in TWAPCircuits
    THEN ~(params.MinPrice <= SlotSum /\ SlotSum <= params.MaxPrice)
    ELSE \E t \in ThresholdPairs : t[1] > t[2]

\* the exact result of the failing arithmetic or output step is out of range
OverflowBroken ==
    CASE Cur.op \in {"Sum", "Add"} -> ExactOf(Cur) > MaxU248
      [] Cur.op = "Sub" ->
            Eval(Cur.a, params, env) - Eval(Cur.b, params, env) < 0
      [] Cur.op \in {"OutputAddress", "OutputUint"} ->
            Eval(Cur.a, params, env) >= 2^(Cur.n)
      [] OTHER -> FALSE

-----------------------------------------------------------------------------
(* C16: single-field balance proof (tokenHolder): for one storage slot of  *)
(* the USDC contract under the balanceOf key of HolderAddr the invocation  *)
(* succeeds if and only if the value is at least the minimum balance, it   *)
(* fails with ThresholdUnmet otherwise, and on success the output is       *)
(* exactly HolderAddr, the value, the block number, in this order.         *)
C16_BalanceProof ==
    ( /\ circuit = "tokenHolder"
      /\ phase \in Terminal
      /\ Len(Batch) = 1
      /\ Batch[1].Contract = TokenHolder_USDCTokenAddr
      /\ Batch[1].Slot = SlotOfStructFieldInMapping(9, 0, params.HolderAddr) ) =>
        /\ (phase = "Done") <=> (Batch[1].Value >= TokenHolder_minimumBalance)
        /\ phase = "Failed" => err = "ThresholdUnmet"
        /\ phase = "Done" =>
              output = << [bits |-> Bits160, val |-> params.HolderAddr],
                          [bits |-> Bits248, val |-> Batch[1].Value],
                          [bits |-> Bits64, val |-> Batch[1].BlockNum] >>

\* a balance above the minimum was proven and emitted unchanged
C16_Witness ==
    /\ circuit = "tokenHolder"
    /\ phase = "Done"
    /\ Batch[1].Value = TokenHolder_minimumBalance + 1
    /\ output[2].val = TokenHolder_minimumBalance + 1

-----------------------------------------------------------------------------
(* C17: storage-slot selector check: in every circuit that consumes        *)
(* storage slots a record gets through validation only if its slot key is  *)
(* the key expected by the circuit (the recomputed balanceOf key, or slot 9 *)
(* price1CumulativeLast for the V2 TWAP); a slot of the right contract     *)
(* under another key fails the invocation.                                 *)
(* Violated: uniswapv2twap compares the contract of the slot only.         *)

SlotCircuits == {c \in Circuits : Allocate(c)[2] > 0}

C17_SlotSelectorChecked ==
    (circuit \in SlotCircuits /\ ValidationPassed) =>
        \A i \in 1..Len(Batch) :
            Batch[i].Slot = DeclaredSlots(circuit, params)[i].Slot

-----------------------------------------------------------------------------
-----------------------------------------------------------------------------
(* C19: the batch and the circuit parameters are immutable after           *)
(* construction: once the stream is loaded it holds the records of the     *)
(* batch unchanged at every later step, and no step changes the circuit    *)
(* parameters, the batch or the package-level variables. Matching          *)
(* (AssertEach) is a pure predicate: it changes no local and no output.    *)
(* Extraction (Map) is a pure projection: it never fails, it sets only its *)
(* result, to one value per record of the stream.                          *)

\* the local that holds the data stream of the batch
StreamLocal == Define(circuit)[1].dst

C19_Immutable ==
    /\ [](pc > 1 => env[StreamLocal] = Batch)
    /\ [][ /\ circuit' = circuit
           /\ params' = params
           /\ input' = input
           /\ pkg' = pkg
           /\ At("AssertEach") =>
                  env' = env /\ output' = output /\ buffer' = buffer
           /\ At("Map") =>
                  /\ phase' # "Failed"
                  /\ err' = err /\ output' = output /\ buffer' = buffer
                  /\ \A l \in Locals \ {Cur.dst} : env'[l] = env[l]
                  /\ env'[Cur.dst] =
                        [i \in 1..Len(Batch) |-> MapFn(Cur.f, Cur.n, Batch[i])]
         ]_vars

\* sushiswap has matched, projected and summed a full batch and is done
C19_Witness ==
    /\ circuit = "sushiswap"
    /\ phase = "Done"
    /\ Len(env["receipts"]) = ReceiptCapacity
    /\ Len(env["volumes"]) = ReceiptCapacity

-----------------------------------------------------------------------------
(* C20: every invocation eventually reaches one of the terminal states     *)
(* Done or Failed and stays there: no step runs from a terminal state (no  *)
(* retry after Failed), a failed invocation has no output (no degraded     *)
(* output), and Done and Failed exclude each other: Done carries no error, *)
(* Failed carries one.                                                     *)
C20_Terminates ==
    /\ <>[](phase \in Terminal)
    /\ [][phase \notin Terminal]_vars
    /\ [](phase = "Failed" => err # "None" /\ output = << >> /\ buffer = << >>)
    /\ [](phase = "Done" => err = "None")

\* curve has failed on its volume threshold after validation and summing
C20_Witness ==
    /\ circuit = "curve"
    /\ phase = "Failed"
    /\ err = "ThresholdUnmet"
    /\ pc > 1

-----------------------------------------------------------------------------
(* C21: NFT ownership: the invocation succeeds only if the receipt carries *)
(* an ERC721 Transfer event of NFTContractAddr whose to field (topic 2)    *)
(* equals OwnerAddr and whose tokenId field (topic 3) equals TokenID, both *)
(* fields of the same log entry; a receipt of another event of the same    *)
(* contract, or with the two fields from different logs, is rejected.      *)
(* Violated: Define never compares the event id of either field.           *)

\* field i (0-based) of receipt r is topic idx of a Transfer event of the
\* contract and carries value v
IsTransferTopic(r, i, contract, idx, v) ==
    /\ Field(r, i).Contract = contract
    /\ Field(r, i).EventID = NFT_EventIdTransfer
    /\ Field(r, i).IsTopic = 1
    /\ Field(r, i).Index = idx
    /\ ToUint248(Field(r, i).Value) = v

C21_NFTOwnership ==
    (circuit = "nftOwnership" /\ phase = "Done") =>
        /\ Len(input.Receipts) = 1
        /\ IsTransferTopic(input.Receipts[1], 0, params.NFTContractAddr, 2, params.OwnerAddr)
        /\ IsTransferTopic(input.Receipts[1], 1, params.NFTContractAddr, 3, params.TokenID)
        /\ Field(input.Receipts[1], 0).LogPos = Field(input.Receipts[1], 1).LogPos

-----------------------------------------------------------------------------
(* C22: Uniswap V3 volume: the total volume that is compared with          *)
(* MinVolume and emitted as output equals the sum of the absolute values   *)
(* of the signed amount1 fields of the batch, so a negative amount1        *)
(* contributes its magnitude.                                              *)
(* Violated: the amount word is read as an unsigned number.                *)

Abs(a) == IF a < 0 THEN -a ELSE a

\* the sum of the magnitudes of the signed amount1 fields of the batch
AbsoluteVolume ==
    ExactSum([k \in 1..Len(Batch) |-> Abs(FromInt256(Field(Batch[k], 0).Value))])

C22_AbsoluteVolume ==
    circuit = "uniswapV3" =>
        /\ (err = "None" /\ Cur.op = "AssertIsLessOrEqual") =>
                env["totalVolume"] = AbsoluteVolume
        /\ phase = "Done" => output[2].val = AbsoluteVolume

-----------------------------------------------------------------------------
(* C23: bidirectional volume circuits: the invocation succeeds if and only *)
(* if the batch validates and both MinVolumeIn <= totalIn and              *)
(* MinVolumeOut <= totalOut hold independently (a one-way trader with      *)
(* totalOut = 0 fails whenever MinVolumeOut > 0, however large totalIn     *)
(* is); on success the emitted total volume equals totalIn + totalOut.     *)

\* the batch fills the declared capacity and every record matches
BatchValidates == Len(Batch) = Capacity /\ AllRecordsMatch

BothThresholdsHold ==
    /\ params.MinVolumeIn <= BatchSum(0)
    /\ params.MinVolumeOut <= BatchSum(1)

\* the claim as stated: validation and the two thresholds decide success
C23_BothThresholdsSuffice ==
    (circuit \in BidirectionalCircuits /\ phase \in Terminal) =>
        /\ phase = "Done" <=> (BatchValidates /\ BothThresholdsHold)
        /\ phase = "Done" => output[4].val = BatchSum(0) + BatchSum(1)

\* as amended: success also needs the two sums and their total to fit in
\* 248 bits
C23_BothThresholds ==
    (circuit \in BidirectionalCircuits /\ phase \in Terminal) =>
        /\ phase = "Done" <=>
              /\ BatchValidates
              /\ BothThresholdsHold
              /\ BatchSum(0) + BatchSum(1) <= MaxU248
        /\ phase = "Done" => output[4].val = BatchSum(0) + BatchSum(1)
        /\ (BatchValidates /\ BatchSum(1) = 0 /\ params.MinVolumeOut > 0) =>
              phase = "Failed"

\* the one-way trader: a large volume in, nothing out, a threshold on both
C23_Witness ==
    /\ circuit = "bidirectional"
    /\ phase = "Failed"
    /\ err = "ThresholdUnmet"
    /\ BatchValidates
    /\ BatchSum(0) = MaxU248
    /\ BatchSum(1) = 0
    /\ params.MinVolumeIn = 1
    /\ params.MinVolumeOut = 1

-----------------------------------------------------------------------------
(* C24: the multi-chain balance circuit uses per-slot patterns: slot 0     *)
(* must be the Ethereum USDC contract and slot 1 the BSC USDC contract,    *)
(* each with the holder's balanceOf slot key; the invocation succeeds if   *)
(* and only if MinTotalBalance <= balance0 + balance1; supplying the same  *)
(* two records in swapped order fails validation.                          *)

\* the two slots carry the contract of their position and the holder's key
PerSlotPatternsHold ==
    /\ Len(input.StorageSlots) = 2
    /\ input.StorageSlots[1].Contract = Multichain_USDCEthereum
    /\ input.StorageSlots[2].Contract = Multichain_USDC_BSC
    /\ \A i \in 1..2 :
          input.StorageSlots[i].Slot = SlotOfStructFieldInMapping(9, 0, params.HolderAddr)

\* the two records change places
Swapped == [i \in 1..2 |-> 3 - i]

SwappedFailsValidation ==
    LET r == Run(circuit, params, PermuteInput(input, Swapped))
    IN  r.phase = "Failed" /\ r.err = "PatternMismatch" /\ r.output = << >>

\* the claim as stated: the patterns and the threshold decide success
C24_ThresholdSuffices ==
    (circuit = "multichain" /\ phase \in Terminal) =>
        /\ phase = "Done" <=>
              (PerSlotPatternsHold /\ params.MinTotalBalance <= SlotSum)
        /\ PerSlotPatternsHold => SwappedFailsValidation

\* as amended: success also needs the total to fit in 248 bits
C24_PerSlotPatterns ==
    (circuit = "multichain" /\ phase \in Terminal) =>
        /\ phase = "Done" <=>
              /\ PerSlotPatternsHold
              /\ params.MinTotalBalance <= SlotSum
              /\ SlotSum <= MaxU248
        /\ phase = "Done" => output[4].val = SlotSum
        /\ PerSlotPatternsHold => SwappedFailsValidation

\* a holder with a balance on one chain only meets the threshold
C24_Witness ==
    /\ circuit = "multichain"
    /\ phase = "Done"
    /\ input.StorageSlots[1].Value = 0
    /\ input.StorageSlots[2].Value = 1
    /\ params.MinTotalBalance = 1

-----------------------------------------------------------------------------
(* C25: TWAP circuits (Uniswap V2 and V3): the invocation succeeds only if *)
(* exactly 2 storage slots are counted, both from the pair/pool address    *)
(* given as parameter, and the sum of their two values lies within         *)
(* [MinPrice, MaxPrice]; any other slot count fails.                       *)

\* the pair (V2) or pool (V3) address the invocation is about
PairOrPool == IF circuit = "twap" THEN params.PairAddr ELSE params.PoolAddr

-----------------------------------------------------------------------------
(* C26: user binding: in every successful invocation of a circuit that     *)
(* takes a UserAddr parameter and emits it as the first output, every      *)
(* record of the batch has a designated address field whose value equals   *)
(* UserAddr; no circuit emits a UserAddr that is unconstrained by the      *)
(* evidence.                                                               *)
(* Violated: the LayerZero and Balancer circuits compare no field with     *)
(* UserAddr.                                                               *)

\* the circuits whose first output is their UserAddr parameter
UserCircuits ==
    {c \in Circuits :
        LET outs == StmtsOf(c, {"OutputAddress", "OutputUint"})
        IN  Define(c)[CHOOSE i \in outs : \A j \in outs : i <= j].a = P("UserAddr")}

\* the tracked fields of a receipt that hold an address (0-based)
AddressFields(c) ==
    CASE c \in {"compound", "sushiswap", "polygonBridge", "curve", "uniswapV3",
                "balancer"} -> {1}
      [] c \in {"bidirectional", "sushiBidirectional"} -> {2, 3}
      [] c \in {"uniswapV2LP", "layerzero"} -> {0}

C26_UserBinding ==
    (circuit \in UserCircuits /\ phase = "Done") =>
        \A i \in 1..Len(Batch) :
            \E k \in AddressFields(circuit) :
                ToUint248(Field(Batch[i], k).Value) = params.UserAddr

-----------------------------------------------------------------------------
(* C27: same-log binding in the multi-field receipt circuits (swap volume, *)
(* LP, lending, bridge): in every accepted receipt the amount field that   *)
(* is summed and the address field that is matched against UserAddr come   *)
(* from the same log entry (equal LogPos), so an amount from one event is  *)
(* never credited to a user matched in another event of the same receipt.  *)
(* Violated: only nftOwnership compares the log positions of its fields.   *)

\* the circuits that sum an amount field and match an address field
AmountAndUserCircuits ==
    {"compound", "sushiswap", "polygonBridge", "curve", "uniswapV3",
     "bidirectional", "sushiBidirectional", "uniswapV2LP"}

\* the fields of a receipt that are summed (0-based)
AmountFields(c) == {Define(c)[i].n : i \in StmtsOf(c, {"Map"})}

C27_SameLog ==
    (circuit \in AmountAndUserCircuits /\ ValidationPassed) =>
        \A i \in 1..Len(Batch) :
            \A a \in AmountFields(circuit) :
                \A k \in AddressFields(circuit) :
                    ToUint248(Field(Batch[i], k).Value) = params.UserAddr =>
                        Field(Batch[i], a).LogPos = Field(Batch[i], k).LogPos

-----------------------------------------------------------------------------
(* The real-query program *)

\* the key of balanceOf[holder]: keccak256(abi.encode(holder, 9))
BalanceOfSlotKey(holder) == SlotOfStructFieldInMapping(9, 0, holder)

\* C28: the slot the real-query program adds to the app for the test
\* holder is the balanceOf key of that holder, and Define, evaluated on the
\* records built from what the program added, does not fail an equality
\* assertion on the record
C28_SlotAgrees ==
    prog.name = "realQuery" =>
      /\ \A i \in 1..Len(prog.storage) :
            prog.storage[i].Slot = BalanceOfSlotKey(TestHolderAddress)
      /\ QueryBuilt => err # "PatternMismatch"

IsLetter(b) == (b >= 65 /\ b <= 90) \/ (b >= 97 /\ b <= 122)

\* the same byte, or the same letter in the other case
SameLetter(a, b) ==
    \/ a = b
    \/ IsLetter(a) /\ IsLetter(b) /\ (a - b = 32 \/ b - a = 32)

Occurs(kw, msg) ==
    \E i \in 1..(Len(msg) - Len(kw) + 1) :
        \A j \in 1..Len(kw) : SameLetter(msg[i + j - 1], kw[j])

CategoryKeywords == <<AuthKeywords, NetworkKeywords, RateLimitKeywords, RPCKeywords>>

CategoryLines ==
    << "AUTHENTICATION ERROR DETECTED", "NETWORK/CONNECTION ERROR",
       "RATE LIMIT ERROR", "RPC/BLOCKCHAIN ERROR" >>

UnknownLine == "UNKNOWN ERROR"

Matches(k, msg) ==
    \E n \in 1..Len(CategoryKeywords[k]) : Occurs(CategoryKeywords[k][n], msg)

IsCategoryLine(l) ==
    l = UnknownLine \/ \E k \in 1..Len(CategoryLines) : l = CategoryLines[k]

\* the category lines the program has printed
Reported == SelectSeq(prog.printed, IsCategoryLine)

Analysed ==
    /\ prog.name = "realQuery"
    /\ prog.step = "Exited"
    /\ \E i \in 1..Len(prog.printed) : prog.printed[i] = "Error Analysis:"

\* C29: analyzeError reports exactly one category for every message: the
\* first of authentication, network, rate limit, RPC that has a keyword in
\* the message in any case, and unknown only when no category has one
C29_FirstMatch ==
    Analysed =>
      /\ Len(Reported) = 1
      /\ \A k \in 1..Len(CategoryLines) :
            (Matches(k, prog.errMsg) /\ \A j \in 1..(k - 1) : ~Matches(j, prog.errMsg))
                => Reported[1] = CategoryLines[k]
      /\ (Reported[1] = UnknownLine) <=>
            \A k \in 1..Len(CategoryLines) : ~Matches(k, prog.errMsg)

\* a message with the keywords of two categories in upper case, the later
\* category first, is reported under the earlier one
C29_Witness ==
    /\ Analysed
    /\ prog.errMsg = <<78, 69, 84, 87, 79, 82, 75>> \o <<65, 85, 84, 72>>
    /\ Matches(1, prog.errMsg) /\ Matches(2, prog.errMsg)
    /\ Reported = <<CategoryLines[1]>>

-----------------------------------------------------------------------------
(* The gateway setup program *)

Printed(line) == \E i \in 1..Len(prog.printed) : prog.printed[i] = line

\* C30: the summary line "Gateway Clients: Can be created" is printed only
\* in a run in which no gateway client creation was reported as failed
C30_SummaryTruthful ==
    (prog.name = "gatewaySetup" /\ Printed("Gateway Clients: Can be created"))
        => ~Printed("Failed to create gateway client")

====
